---- MODULE Spec2Model ----
(***************************************************************************)
(* M5StickC Companion v4 single-button satellite                           *)
(* (src/M5StickC-Companion-v4-Satellite.ino).                              *)
(*                                                                         *)
(* Strings are sequences of one-character strings, so that the firmware's  *)
(* index/substring scanning is computed character by character.  Indices   *)
(* in the operators below are 0-based, as in the Arduino String class.     *)
(***************************************************************************)
EXTENDS Integers, Sequences, FiniteSets, TLC

\* ------------------------------------------------------------------------
\* Arduino String primitives used by the sketch
\* ------------------------------------------------------------------------

\* An int passed where the String API takes "unsigned int": a negative value
\* becomes a value above every possible length, order among negatives kept.
Unsigned(i) == IF i < 0 THEN 2147483647 + (i + 1) ELSE i

isspace(c) == c \in {" ", "\t", "\n", "\r", "\f", "VT"}

\* strncmp(buffer + i, pat, len(pat)) == 0
MatchAt(s, pat, i) == i + Len(pat) <= Len(s) /\ SubSeq(s, i + 1, i + Len(pat)) = pat

\* the first match at or after f, -1 when there is none
firstMatch(s, pat, f) ==
  IF \E i \in f .. Len(s) - 1 : MatchAt(s, pat, i)
  THEN CHOOSE i \in f .. Len(s) - 1 :
         MatchAt(s, pat, i) /\ \A j \in f .. i - 1 : ~MatchAt(s, pat, j)
  ELSE -1

indexOfFrom(s, pat, from) == firstMatch(s, pat, Unsigned(from))

indexOf(s, pat) == indexOfFrom(s, pat, 0)

substring(s, left, right) ==
  LET a  == Unsigned(left)
      b  == Unsigned(right)
      l  == IF a > b THEN b ELSE a
      r0 == IF a > b THEN a ELSE b
      r  == IF r0 > Len(s) THEN Len(s) ELSE r0
  IN  IF l >= Len(s) THEN <<>> ELSE SubSeq(s, l + 1, r)

substringFrom(s, left) == substring(s, left, Len(s))

\* a match of the prefix anywhere in the line
startsWithAnywhere(s, p) == indexOf(s, p) >= 0

startsWith(s, p) == Len(p) <= Len(s) /\ SubSeq(s, 1, Len(p)) = p

endsWith(s, p) == Len(p) <= Len(s) /\ SubSeq(s, Len(s) - Len(p) + 1, Len(s)) = p

RECURSIVE trimLeft(_)
trimLeft(s) == IF s # <<>> /\ isspace(Head(s)) THEN trimLeft(Tail(s)) ELSE s

RECURSIVE trimRight(_)
trimRight(s) ==
  IF s # <<>> /\ isspace(s[Len(s)]) THEN trimRight(SubSeq(s, 1, Len(s) - 1)) ELSE s

trim(s) == trimRight(trimLeft(s))

RECURSIVE replace(_, _, _)
\* the text up to the match found at i, the replacement, and the rest replaced
replaceAt(s, find, repl, i) ==
  IF i < 0 THEN s
  ELSE SubSeq(s, 1, i) \o repl \o replace(SubSeq(s, i + Len(find) + 1, Len(s)), find, repl)

\* String::replace: every match of find, left to right, none overlapping
replace(s, find, repl) ==
  IF s = <<>> \/ find = <<>> THEN s ELSE replaceAt(s, find, repl, indexOf(s, find))

HexDigits == <<"0","1","2","3","4","5","6","7","8","9","A","B","C","D","E","F">>

LowerHex == <<"a","b","c","d","e","f">>

\* value of a digit in the given base, -1 when c is no digit of that base
digitValue(c, base) ==
  LET up == IF \E i \in 1..6 : LowerHex[i] = c
            THEN HexDigits[10 + (CHOOSE i \in 1..6 : LowerHex[i] = c)]
            ELSE c
  IN  IF \E i \in 1..base : HexDigits[i] = up
      THEN (CHOOSE i \in 1..base : HexDigits[i] = up) - 1
      ELSE -1

RECURSIVE strtolDigits(_, _, _)
strtolDigits(s, base, acc) ==
  IF s = <<>> \/ digitValue(Head(s), base) < 0 THEN acc
  ELSE strtolDigits(Tail(s), base, acc * base + digitValue(Head(s), base))

\* strtol(s, nullptr, base): leading white space, optional sign, digits; 0 when
\* there is no digit.  (Values stay far below LONG_MAX in the inputs used.)
strtol(s, base) ==
  LET t    == trimLeft(s)
      neg  == t # <<>> /\ Head(t) = "-"
      body == IF t # <<>> /\ Head(t) \in {"-", "+"} THEN Tail(t) ELSE t
      mag  == strtolDigits(body, base, 0)
  IN  IF neg THEN 0 - mag ELSE mag

\* String::toInt() is atol(buffer)
toInt(s) == strtol(s, 10)

\* ------------------------------------------------------------------------
\* unsigned long arithmetic of the timers (32 bits, as two 16-bit limbs)
\* ------------------------------------------------------------------------

\* (a - b) mod 2^32 for millisecond stamps a, b
U32Sub(a, b) == [hi |-> ((a - b) \div 65536) % 65536, lo |-> (a - b) % 65536]

\* x >= k for an unsigned 32-bit x and a constant 0 <= k < 2^31
U32GE(x, k) == x.hi > k \div 65536 \/ (x.hi = k \div 65536 /\ x.lo >= k % 65536)

\* ------------------------------------------------------------------------
\* Characters as bytes (for base64 payloads): ByteChars[b + 1] is the character
\* with code b; codes without a printable form carry a name.
\* ------------------------------------------------------------------------
ByteChars ==
  <<"NUL","SOH","STX","ETX","EOT","ENQ","ACK","BEL","BS","\t","\n","VT","\f","\r","SO","SI",
     "DLE","DC1","DC2","DC3","DC4","NAK","SYN","ETB","CAN","EM","SUB","ESC","FS","GS","RS","US",
     " ","!","\"","#","$","%","&","'","(",")","*","+",",","-",".","/",
     "0","1","2","3","4","5","6","7","8","9",":",";","<","=",">","?",
     "@","A","B","C","D","E","F","G","H","I","J","K","L","M","N","O",
     "P","Q","R","S","T","U","V","W","X","Y","Z","[","\\","]","^","_",
     "GRAVE","a","b","c","d","e","f","g","h","i","j","k","l","m","n","o",
     "p","q","r","s","t","u","v","w","x","y","z","{","|","}","~","DEL",
     "x80","x81","x82","x83","x84","x85","x86","x87","x88","x89","x8A","x8B","x8C","x8D","x8E","x8F",
     "x90","x91","x92","x93","x94","x95","x96","x97","x98","x99","x9A","x9B","x9C","x9D","x9E","x9F",
     "xA0","xA1","xA2","xA3","xA4","xA5","xA6","xA7","xA8","xA9","xAA","xAB","xAC","xAD","xAE","xAF",
     "xB0","xB1","xB2","xB3","xB4","xB5","xB6","xB7","xB8","xB9","xBA","xBB","xBC","xBD","xBE","xBF",
     "xC0","xC1","xC2","xC3","xC4","xC5","xC6","xC7","xC8","xC9","xCA","xCB","xCC","xCD","xCE","xCF",
     "xD0","xD1","xD2","xD3","xD4","xD5","xD6","xD7","xD8","xD9","xDA","xDB","xDC","xDD","xDE","xDF",
     "xE0","xE1","xE2","xE3","xE4","xE5","xE6","xE7","xE8","xE9","xEA","xEB","xEC","xED","xEE","xEF",
     "xF0","xF1","xF2","xF3","xF4","xF5","xF6","xF7","xF8","xF9","xFA","xFB","xFC","xFD","xFE","xFF">>

\* ------------------------------------------------------------------------
\* Globals / Config
\* ------------------------------------------------------------------------
connectRetryMs == 5000

pingIntervalMs == 2000

MAX_AUTO_LINES == 7

DISPLAY_BITMAP == 0

DISPLAY_TEXT == 1

DEFAULT_BITMAP_ROTATION == 1

BLACK == 0

WHITE == 65535

\* "M5StickC_" followed by the MAC address in upper-case hex
deviceID ==
  <<"M","5","S","t","i","c","k","C","_","0","A","1","B","2","C","3","D","4","E","5","F">>

\* The panel of the M5StickC is 80 x 160; rotations 1 and 3 are landscape.
PanelShort == 80

PanelLong == 160

\* Font4 at text size 1 (setNormalFont), taken as a fixed advance per glyph
GlyphWidth == 14

\* M5.Display.color565(r, g, b): the arguments are uint8_t
color565(r, g, b) ==
  ((r % 256) \div 8) * 2048 + ((g % 256) \div 4) * 32 + ((b % 256) \div 8)

\* The rotation in force: TEXT mode uses screenRotation, BITMAP mode the default
rotationOf(d) ==
  IF d.displayMode = DISPLAY_TEXT THEN d.screenRotation ELSE DEFAULT_BITMAP_ROTATION

\* M5.Display.width()
displayWidth(d) == IF rotationOf(d) % 2 = 1 THEN PanelLong ELSE PanelShort

\* M5.Display.textWidth(s) with the normal font selected
textWidth(s) == Len(s) * GlyphWidth

\* What the panel shows: the last full-screen paint and what was drawn over it.
\* pixels are the RGB565 pixels of a bitmap, row by row, before upscaling.
Screen(kind, status, font, lines, bg, fg, border, side) ==
  [kind |-> kind, status |-> status, font |-> font, lines |-> lines,
   bg |-> bg, fg |-> fg, border |-> border, side |-> side, pixels |-> <<>>]

\* drawCenterText(txt, color, bg): a boot / status message in Font0
drawCenterText(d, msg) ==
  [d EXCEPT !.font = "Font0",
            !.screen = Screen("status", msg, "Font0", <<>>, BLACK, WHITE, FALSE, 0)]

\* clearScreen(BLACK)
clearScreen(d) ==
  [d EXCEPT !.screen = Screen("fill", "", d.font, <<>>, BLACK, d.screen.fg, FALSE, 0)]

\* setExternalLedColor(uint8_t r, uint8_t g, uint8_t b); the blue pin is disabled
setExternalLedColor(d, r, g, b) ==
  LET r8 == r % 256
      g8 == g % 256
      b8 == b % 256
      m  == IF d.brightness > 15 THEN d.brightness ELSE 15
  IN  [d EXCEPT !.lastColorR = r8, !.lastColorG = g8, !.lastColorB = b8,
                !.ledRed   = ((r8 * m) \div 100) % 256,
                !.ledGreen = ((g8 * m) \div 100) % 256]

\* applyDisplayBrightness(): clamps a local copy, maps 0..100 to 0..255
applyDisplayBrightness(d) ==
  LET p0 == d.brightness
      p1 == IF p0 < 0 THEN 0 ELSE p0
      p  == IF p1 > 100 THEN 100 ELSE p1
  IN  [d EXCEPT !.backlight = ((p * 255) \div 100) % 256]

\* The display-side globals after setup(), for a stored display mode and rotation.
\* heap is what the bytes of a new uint8_t[n] hold before anything is written to
\* them; it is read only by a bitmap of no bytes.
BootDisplay(mode, rot) ==
  [displayMode |-> mode, screenRotation |-> rot,
   brightness |-> 100, lastColorR |-> 0, lastColorG |-> 0, lastColorB |-> 0,
   ledRed |-> 0, ledGreen |-> 0, backlight |-> 255,
   textPressedBorder |-> FALSE,
   currentText |-> <<>>, line1 |-> <<>>, line2 |-> <<>>, line3 |-> <<>>,
   numLines |-> 0, manualLines |-> <<>>, useManualLines |-> FALSE,
   bgColor |-> BLACK, txtColor |-> WHITE, font |-> "Font0",
   heap |-> <<0, 0, 0>>,
   screen |-> Screen("status", "Waiting For Companion", "Font0", <<>>, BLACK, WHITE, FALSE, 0)]

\* ------------------------------------------------------------------------
\* TEXT MODE: base64 text decoding
\* ------------------------------------------------------------------------
B64_TABLE ==
  <<"A","B","C","D","E","F","G","H","I","J","K","L","M","N","O","P","Q","R","S","T","U","V",
    "W","X","Y","Z","a","b","c","d","e","f","g","h","i","j","k","l","m","n","o","p","q","r",
    "s","t","u","v","w","x","y","z","0","1","2","3","4","5","6","7","8","9","+","/">>

b64Index(c) ==
  IF \E i \in 1..64 : B64_TABLE[i] = c
  THEN (CHOOSE i \in 1..64 : B64_TABLE[i] = c) - 1
  ELSE -1

\* The loop of decodeBase64.  Only bits valb..valb+7 of val are ever read and
\* valb <= 4, so val is kept to its low 16 bits.
RECURSIVE decodeBase64Loop(_, _, _, _)
decodeBase64Loop(input, val, valb, out) ==
  IF input = <<>> \/ Head(input) = "=" \/ b64Index(Head(input)) < 0 THEN out
  ELSE LET v  == (val * 64 + b64Index(Head(input))) % 65536
           vb == valb + 6
       IN  IF vb >= 0
           THEN decodeBase64Loop(Tail(input), v, vb - 8,
                                 Append(out, ByteChars[((v \div (2 ^ vb)) % 256) + 1]))
           ELSE decodeBase64Loop(Tail(input), v, vb, out)

\* a decoder that gives a character for every sextet from the first one on
decodeBase64FromZero(input) == decodeBase64Loop(input, 0, 0, <<>>)

decodeBase64(input) == decodeBase64Loop(input, 0, -8, <<>>)

\* decodeCompanionText: base64 -> text, or the token itself when it cannot be base64
decodeCompanionText(encoded) ==
  LET looksBase64 == \A i \in 1..Len(encoded) :
                       b64Index(encoded[i]) >= 0 \/ encoded[i] = "="
      decoded     == decodeBase64(encoded)
  IN  IF Len(encoded) = 0 THEN encoded
      ELSE IF ~looksBase64 THEN encoded
      ELSE IF Len(decoded) = 0 THEN encoded
      ELSE decoded

\* ------------------------------------------------------------------------
\* COLOR= / TEXTCOLOR= parsing
\* ------------------------------------------------------------------------
NoColor == [ok |-> FALSE, r |-> 0, g |-> 0, b |-> 0]

\* the body of an rgb(...) / rgba(...) token once "rgba(", "rgb(", ")" and
\* blanks are removed
stripRgb(c) ==
  replace(replace(replace(replace(c, <<"r","g","b","a","(">>, <<>>),
                          <<"r","g","b","(">>, <<>>), <<")">>, <<>>), <<" ">>, <<>>)

\* rgb()/rgba() form, for the token c with "rgba(", "rgb(", ")" and blanks
\* removed and the positions p1, p2, p3 of its first three commas
colorFromRgbAt(c, p1, p2, p3) ==
  IF p1 < 0 \/ p2 < 0 THEN NoColor
  ELSE [ok |-> TRUE,
        r  |-> toInt(substring(c, 0, p1)),
        g  |-> toInt(substring(c, p1 + 1, p2)),
        b  |-> IF p3 >= 0 THEN toInt(substring(c, p2 + 1, p3))
               ELSE toInt(substringFrom(c, p2 + 1))]

colorFromRgbFrom(c, p1, p2) == colorFromRgbAt(c, p1, p2, indexOfFrom(c, <<",">>, p2 + 1))

colorFromRgbStripped(c, p1) == colorFromRgbFrom(c, p1, indexOfFrom(c, <<",">>, p1 + 1))

colorFromRgb(c) == colorFromRgbStripped(c, indexOf(c, <<",">>))

\* hex form: #RRGGBB
colorFromHex(val) ==
  IF Len(val) < 7 THEN NoColor
  ELSE [ok |-> TRUE,
        r  |-> strtol(substring(val, 1, 3), 16),
        g  |-> strtol(substring(val, 3, 5), 16),
        b  |-> strtol(substring(val, 5, 7), 16)]

\* decimal CSV form: R,G,B, with the positions c1, c2 of the first two commas
colorFromCsvAt(val, c1, c2) ==
  IF c1 < 0 \/ c2 < 0 THEN NoColor
  ELSE [ok |-> TRUE,
        r  |-> toInt(substring(val, 0, c1)),
        g  |-> toInt(substring(val, c1 + 1, c2)),
        b  |-> toInt(substringFrom(val, c2 + 1))]

colorFromCsvFrom(val, c1) == colorFromCsvAt(val, c1, indexOfFrom(val, <<",">>, c1 + 1))

colorFromCsv(val) == colorFromCsvFrom(val, indexOf(val, <<",">>))

\* the three forms, for a token without its surrounding quotes
colorFromValue(val) ==
  IF startsWith(val, <<"r","g","b","(">>) \/ startsWith(val, <<"r","g","b","a","(">>)
  THEN colorFromRgb(stripRgb(val))
  ELSE IF Len(val) > 0 /\ val[1] = "#" THEN colorFromHex(val)
  ELSE colorFromCsv(val)

\* the trimmed token; surrounding quotes are stripped when present
colorFromToken(val) ==
  IF Len(val) = 0 THEN NoColor
  ELSE IF Len(val) >= 2 /\ val[1] = "\"" /\ val[Len(val)] = "\""
  THEN colorFromValue(substring(val, 1, Len(val) - 1))
  ELSE colorFromValue(val)

\* the token from pos up to the space at end, or up to the end of the line
colorTokenTo(line, pos, end) ==
  colorFromToken(trim(substring(line, pos, IF end < 0 THEN Len(line) ELSE end)))

\* the token that starts at pos
colorTokenFrom(line, pos) == colorTokenTo(line, pos, indexOfFrom(line, <<" ">>, pos))

\* a parser for which a missing key means black
colorTokenAfterBlack(line, key, pos) ==
  IF pos < 0 THEN [ok |-> TRUE, r |-> 0, g |-> 0, b |-> 0]
  ELSE IF pos + Len(key) < Len(line) /\ line[pos + Len(key) + 1] = "="
  THEN colorTokenFrom(line, pos + Len(key) + 1)
  ELSE colorTokenFrom(line, pos + Len(key))

\* the token after the key found at pos, an '=' after the key skipped
colorTokenAfter(line, key, pos) ==
  IF pos < 0 THEN NoColor
  ELSE IF pos + Len(key) < Len(line) /\ line[pos + Len(key) + 1] = "="
  THEN colorTokenFrom(line, pos + Len(key) + 1)
  ELSE colorTokenFrom(line, pos + Len(key))

parseColorToken(line, key) == colorTokenAfter(line, key, indexOf(line, key))

\* ------------------------------------------------------------------------
\* Word-wrap into up to MAX_AUTO_LINES lines
\* ------------------------------------------------------------------------
RECURSIVE splitWords(_, _)
splitWords(src, start) ==
  IF start >= Len(src) THEN <<>>
  ELSE LET sp    == indexOfFrom(src, <<" ">>, start)
           space == IF sp < 0 THEN Len(src) ELSE sp
           w     == substring(src, start, space)
       IN  (IF Len(w) > 0 THEN <<w>> ELSE <<>>) \o splitWords(src, space + 1)

\* the for loop over words; lines is linesBuf, cur is currentLine
RECURSIVE wrapLoop(_, _, _, _, _)
wrapLoop(words, i, lines, cur, screenW) ==
  IF i > Len(words) THEN [fits |-> TRUE, lines |-> lines, cur |-> cur]
  ELSE IF cur >= MAX_AUTO_LINES THEN [fits |-> FALSE, lines |-> lines, cur |-> cur]
  ELSE LET candidate == IF Len(lines[cur + 1]) = 0 THEN words[i]
                        ELSE lines[cur + 1] \o <<" ">> \o words[i]
       IN  IF textWidth(candidate) <= screenW
           THEN wrapLoop(words, i + 1, [lines EXCEPT ![cur + 1] = candidate], cur, screenW)
           ELSE IF cur + 1 >= MAX_AUTO_LINES
                THEN [fits |-> FALSE, lines |-> lines, cur |-> cur + 1]
                ELSE wrapLoop(words, i + 1, [lines EXCEPT ![cur + 2] = words[i]],
                              cur + 1, screenW)

\* a wrap that keeps the lines it has when the words do not fit
wrapResultTruncating(r) ==
  [fits |-> TRUE, l1 |-> r.lines[1], l2 |-> r.lines[2], l3 |-> r.lines[3],
   outLines |-> IF r.fits THEN r.cur + 1 ELSE MAX_AUTO_LINES]

\* what wrapToLines hands back once the loop over the words has ended with r
wrapResult(r) ==
  IF ~r.fits
  THEN [fits |-> FALSE, l1 |-> <<>>, l2 |-> <<>>, l3 |-> <<>>, outLines |-> 0]
  ELSE [fits |-> TRUE,
        l1 |-> IF r.cur + 1 >= 1 THEN r.lines[1] ELSE <<>>,
        l2 |-> IF r.cur + 1 >= 2 THEN r.lines[2] ELSE <<>>,
        l3 |-> IF r.cur + 1 >= 3 THEN r.lines[3] ELSE <<>>,
        outLines |-> r.cur + 1]

wrapToLines(src, screenW) ==
  IF Len(src) = 0
  THEN [fits |-> TRUE, l1 |-> <<>>, l2 |-> <<>>, l3 |-> <<>>, outLines |-> 0]
  ELSE wrapResult(wrapLoop(splitWords(src, 0), 1, [k \in 1..MAX_AUTO_LINES |-> <<>>], 0,
                           screenW))

\* ------------------------------------------------------------------------
\* Decide layout based on currentText
\* ------------------------------------------------------------------------
RECURSIVE splitLines(_, _)
splitLines(txt, start) ==
  LET idx == indexOfFrom(txt, <<"\n">>, start)
  IN  IF idx < 0 THEN <<substringFrom(txt, start)>>
      ELSE <<substring(txt, start, idx)>> \o splitLines(txt, idx + 1)

\* a layout that word-wraps every text of more than 3 characters
layoutAutoWrapFirst(d, txt, w) ==
  IF Len(txt) <= 2
  THEN [d EXCEPT !.font = "ExtraBig", !.numLines = 1, !.line1 = txt]
  ELSE IF Len(txt) = 3
  THEN [d EXCEPT !.font = "Ultra", !.numLines = 1, !.line1 = txt]
  ELSE IF w.fits /\ w.outLines > 0 /\ w.outLines <= MAX_AUTO_LINES
  THEN [d EXCEPT !.font = "Normal", !.numLines = w.outLines, !.line1 = w.l1,
                 !.line2 = IF w.outLines >= 2 THEN w.l2 ELSE <<>>,
                 !.line3 = IF w.outLines >= 3 THEN w.l3 ELSE <<>>]
  ELSE [d EXCEPT !.font = "Normal", !.numLines = 1, !.line1 = txt]

\* the automatic tiers, for a text without line breaks; w is its word wrap
layoutAuto(d, txt, w) ==
  IF Len(txt) <= 2
  THEN [d EXCEPT !.font = "ExtraBig", !.numLines = 1, !.line1 = txt]
  ELSE IF Len(txt) = 3
  THEN [d EXCEPT !.font = "Ultra", !.numLines = 1, !.line1 = txt]
  ELSE IF Len(txt) <= 6
  THEN [d EXCEPT !.font = "Large", !.numLines = 1, !.line1 = txt]
  ELSE IF w.fits /\ w.outLines > 0 /\ w.outLines <= MAX_AUTO_LINES
  THEN [d EXCEPT !.font = "Normal", !.numLines = w.outLines, !.line1 = w.l1,
                 !.line2 = IF w.outLines >= 2 THEN w.l2 ELSE <<>>,
                 !.line3 = IF w.outLines >= 3 THEN w.l3 ELSE <<>>]
  ELSE [d EXCEPT !.font = "Normal", !.numLines = 1, !.line1 = txt]

\* manual multi-line mode with every line kept
layoutManualAll(d, all) ==
  [d EXCEPT !.font = "Normal", !.useManualLines = TRUE, !.manualLines = all]

\* manual multi-line mode: the text split at its line breaks, five lines kept
layoutManual(d, all) ==
  [d EXCEPT !.font = "Normal", !.useManualLines = TRUE,
            !.manualLines = IF Len(all) > 5 THEN SubSeq(all, 1, 5) ELSE all]

\* the layout of txt, the layout globals of d already reset
layoutOf(d, txt) ==
  IF Len(txt) = 0 THEN d
  ELSE IF indexOf(txt, <<"\n">>) >= 0 THEN layoutManual(d, splitLines(txt, 0))
  ELSE layoutAuto(d, txt, wrapToLines(txt, displayWidth(d)))

\* a layout computed over what the previous text left behind
analyseLayoutKeeping(d0) == layoutOf(d0, d0.currentText)

analyseLayout(d0) ==
  layoutOf([d0 EXCEPT !.line1 = <<>>, !.line2 = <<>>, !.line3 = <<>>, !.numLines = 0,
                      !.useManualLines = FALSE, !.manualLines = <<>>],
           d0.currentText)

\* ------------------------------------------------------------------------
\* Repaint display based on text layout state
\* ------------------------------------------------------------------------
\* fillScreen(bgColor), the strings drawn in the given font, then the border
paintText(d, font, lines) ==
  [d EXCEPT !.font = font,
            !.screen = Screen("text", "", font, lines, d.bgColor, d.txtColor,
                              d.textPressedBorder, 0)]

\* a repaint with one tier for every text of up to 3 characters
refreshTextDisplayUltraFirst(d) ==
  LET len    == Len(d.currentText)
      stored == <<d.line1, d.line2, d.line3>>
      shown  == IF d.numLines < 3 THEN d.numLines ELSE 3
  IN  IF len = 0 THEN paintText(d, d.font, <<>>)
      ELSE IF d.useManualLines THEN paintText(d, "Normal", d.manualLines)
      ELSE IF len <= 3 THEN paintText(d, "Ultra", <<d.currentText>>)
      ELSE IF len <= 6 THEN paintText(d, "Large", <<d.currentText>>)
      ELSE IF d.numLines >= 1 /\ d.numLines <= MAX_AUTO_LINES
      THEN paintText(d, "Normal", SubSeq(stored, 1, shown))
      ELSE paintText(d, d.font, <<>>)

refreshTextDisplay(d) ==
  LET len    == Len(d.currentText)
      stored == <<d.line1, d.line2, d.line3>>
      shown  == IF d.numLines < 3 THEN d.numLines ELSE 3
  IN  IF len = 0 THEN paintText(d, d.font, <<>>)
      ELSE IF d.useManualLines THEN paintText(d, "Normal", d.manualLines)
      ELSE IF len <= 2 THEN paintText(d, "ExtraBig", <<d.currentText>>)
      ELSE IF len = 3 THEN paintText(d, "Ultra", <<d.currentText>>)
      ELSE IF len <= 6 THEN paintText(d, "Large", <<d.currentText>>)
      ELSE IF d.numLines >= 1 /\ d.numLines <= MAX_AUTO_LINES
      THEN paintText(d, "Normal", SubSeq(stored, 1, shown))
      ELSE paintText(d, d.font, <<>>)

\* setTextNow / setText
setTextNow(d, txt) == refreshTextDisplay(analyseLayout([d EXCEPT !.currentText = txt]))

setText(d, txt) == setTextNow(d, txt)

\* ------------------------------------------------------------------------
\* Handle TEXT= and COLOR/TEXTCOLOR in KEY-STATE for TEXT mode
\* ------------------------------------------------------------------------
\* the text between the quotes, decoded, with "\n" turned into line breaks
textFieldBetween(d, line, firstQuote, secondQuote) ==
  IF secondQuote < 0 THEN d
  ELSE setText(d, replace(decodeCompanionText(substring(line, firstQuote + 1, secondQuote)),
                          <<"\\","n">>, <<"\n">>))

textFieldFrom(d, line, firstQuote) ==
  IF firstQuote < 0 THEN d
  ELSE textFieldBetween(d, line, firstQuote, indexOfFrom(line, <<"\"">>, firstQuote + 1))

textFieldAt(d, line, tPos) ==
  IF tPos < 0 THEN d ELSE textFieldFrom(d, line, indexOfFrom(line, <<"\"">>, tPos))

handleKeyStateTextField(d, line) ==
  textFieldAt(d, line, indexOf(line, <<"T","E","X","T","=">>))

\* the globals once COLOR= gave bg and TEXTCOLOR= gave txt
applyTextModeColors(d, bg, txt) ==
  LET d1 == IF bg.ok THEN [d EXCEPT !.bgColor = color565(bg.r, bg.g, bg.b)] ELSE d
      d2 == IF txt.ok THEN [d1 EXCEPT !.txtColor = color565(txt.r, txt.g, txt.b)] ELSE d1
  IN  IF bg.ok \/ txt.ok THEN refreshTextDisplay(d2) ELSE d2

handleTextModeColors(d, line) ==
  applyTextModeColors(d, parseColorToken(line, <<"C","O","L","O","R">>),
                         parseColorToken(line, <<"T","E","X","T","C","O","L","O","R">>))

\* ------------------------------------------------------------------------
\* Companion / Satellite API
\* ------------------------------------------------------------------------
\* a registration that announces text and bitmaps at once, whatever the mode
sendAddDeviceBoth(d) ==
  <<"A","D","D","-","D","E","V","I","C","E"," ","D","E","V","I","C","E","I","D","=">>
  \o deviceID \o
  <<" ","P","R","O","D","U","C","T","_","N","A","M","E","=","\"","M","5","S","t","i","c","k",
    "C","/","P","l","u","s"," ","(","T","E","X","T",")","\""," ","K","E","Y","S","_","T","O",
    "T","A","L","=","1"," ","K","E","Y","S","_","P","E","R","_","R","O","W","=","1"," ","C",
    "O","L","O","R","S","=","r","g","b"," ","T","E","X","T","=","t","r","u","e"," ","B","I",
    "T","M","A","P","S","=","7","2">>

sendAddDevice(d) ==
  IF d.displayMode = DISPLAY_TEXT
  THEN <<"A","D","D","-","D","E","V","I","C","E"," ","D","E","V","I","C","E","I","D","=">>
       \o deviceID \o
       <<" ","P","R","O","D","U","C","T","_","N","A","M","E","=","\"","M","5","S","t","i",
         "c","k","C","/","P","l","u","s"," ","(","T","E","X","T",")","\""," ","K","E","Y",
         "S","_","T","O","T","A","L","=","1"," ","K","E","Y","S","_","P","E","R","_","R",
         "O","W","=","1"," ","C","O","L","O","R","S","=","r","g","b"," ","T","E","X","T",
         "=","t","r","u","e"," ","B","I","T","M","A","P","S","=","0">>
  ELSE <<"A","D","D","-","D","E","V","I","C","E"," ","D","E","V","I","C","E","I","D","=">>
       \o deviceID \o
       <<" ","P","R","O","D","U","C","T","_","N","A","M","E","=","\"","M","5","S","t","i",
         "c","k","C","/","P","l","u","s"," ","(","B","I","T","M","A","P",")","\""," ","K",
         "E","Y","S","_","T","O","T","A","L","=","1"," ","K","E","Y","S","_","P","E","R",
         "_","R","O","W","=","1"," ","C","O","L","O","R","S","=","r","g","b"," ","T","E",
         "X","T","=","f","a","l","s","e"," ","B","I","T","M","A","P","S","=","7","2">>

\* mbedtls_base64_decode on a token without blanks or line ends: every character
\* is of the alphabet or '=', at most two '=', none followed by an alphabet
\* character; bytes come out per complete group of four characters.
b64Strict(src) ==
  /\ \A i \in 1..Len(src) : src[i] = "=" \/ b64Index(src[i]) >= 0
  /\ Cardinality({i \in 1..Len(src) : src[i] = "="}) <= 2
  /\ \A i, j \in 1..Len(src) : (src[i] = "=" /\ i < j) => src[j] = "="

sextet(c) == IF c = "=" THEN 0 ELSE b64Index(c)

RECURSIVE b64Groups(_)
b64Groups(src) ==
  IF Len(src) < 4 THEN <<>>
  ELSE LET x == sextet(src[1]) * 262144 + sextet(src[2]) * 4096
                + sextet(src[3]) * 64 + sextet(src[4])
           j == 3 - Cardinality({i \in 1..4 : src[i] = "="})
       IN  SubSeq(<<x \div 65536, (x \div 256) % 256, x % 256>>, 1, IF j > 0 THEN j ELSE 0)
           \o b64Groups(SubSeq(src, 5, Len(src)))

mbedtls_base64_decode(src) ==
  IF b64Strict(src) THEN [res |-> 0, out |-> b64Groups(src)]
  ELSE [res |-> -44, out |-> <<>>]

\* (int) sqrt(n) for n >= 0
isqrt(n) == CHOOSE k \in 0..n : k * k <= n /\ (k + 1) * (k + 1) > n

\* M5.Display.height()
displayHeight(d) == IF rotationOf(d) % 2 = 1 THEN PanelShort ELSE PanelLong

\* the source coordinates the loops of drawBitmapRGB888FullScreen compute along
\* one axis of extent pixels: srcX = (x * size) / sw, srcY = (y * size) / sh
srcCoords(size, extent) == {(p * size) \div extent : p \in 0 .. extent - 1}

\* idx = (srcY * size + srcX) * 3 for every panel pixel: rgb[idx .. idx + 2] is read
sampledIdx(size, sw, sh) ==
  {(srcY * size + srcX) * 3 : srcX \in srcCoords(size, sw), srcY \in srcCoords(size, sh)}

\* drawBitmapRGB888FullScreen(rgb, size): every pixel of the panel is written,
\* panel pixel (x, y) from source pixel (x * size / sw, y * size / sh); with
\* size 0 that is the pixel at rgb[0..2] for the whole panel
drawBitmapRGB888FullScreen(d, rgb, size) ==
  [d EXCEPT !.screen =
     [Screen("bitmap", "", d.font, <<>>, d.screen.bg, d.screen.fg, FALSE, size)
        EXCEPT !.pixels =
          IF size = 0 THEN <<color565(rgb[1], rgb[2], rgb[3])>>
          ELSE [k \in 1 .. size * size |->
                  color565(rgb[3 * k - 2], rgb[3 * k - 1], rgb[3 * k])]]]

\* the copy loop of the RGBA branch: three bytes of every four
dropAlpha(buf, pixels) ==
  [k \in 1 .. 3 * pixels |-> buf[4 * ((k - 1) \div 3) + ((k - 1) % 3) + 1]]

\* line.substring(start, end) trimmed, end being the next space or the line's end
fieldTo(line, start, end) ==
  trim(substring(line, start, IF end < 0 THEN Len(line) ELSE end))

fieldAt(line, start) == fieldTo(line, start, indexOfFrom(line, <<" ">>, start))

\* if (c.startsWith("\"") && c.endsWith("\"")) c = c.substring(1, c.length() - 1)
unquote(c) ==
  IF startsWith(c, <<"\"">>) /\ endsWith(c, <<"\"">>) THEN substring(c, 1, Len(c) - 1) ELSE c

\* the LED colour from the stripped token s with commas at p1, p2, p3
ledFromRgbAt(d, s, p1, p2, p3) ==
  setExternalLedColor(d, toInt(substring(s, 0, p1)),
                         toInt(substring(s, p1 + 1, p2)),
                         IF p3 >= 0 THEN toInt(substring(s, p2 + 1, p3))
                         ELSE toInt(substringFrom(s, p2 + 1)))

ledFromRgbFrom(d, s, p1, p2) == ledFromRgbAt(d, s, p1, p2, indexOfFrom(s, <<",">>, p2 + 1))

ledFromRgbStripped(d, s, p1) == ledFromRgbFrom(d, s, p1, indexOfFrom(s, <<",">>, p1 + 1))

ledFromRgb(d, s) == ledFromRgbStripped(d, s, indexOf(s, <<",">>))

\* only rgba(...) and rgb(...) reach the LED
ledFromValue(d, c) ==
  IF startsWith(c, <<"r","g","b","a","(">>) \/ startsWith(c, <<"r","g","b","(">>)
  THEN ledFromRgb(d, stripRgb(c))
  ELSE d

ledFromField(d, line, colorPos) ==
  IF colorPos < 0 THEN d ELSE ledFromValue(d, unquote(fieldAt(line, colorPos + 6)))

\* the COLOR= part of handleKeyState: the external LED follows rgb()/rgba()
handleKeyStateLed(d, line) ==
  ledFromField(d, line, indexOf(line, <<"C","O","L","O","R","=">>))

\* the square inferred from the number of decoded bytes: sizeRGB, sizeRGBA,
\* isRGB and isRGBA
inferSquare(out_len) ==
  [sizeRGB  |-> isqrt(out_len \div 3),
   sizeRGBA |-> isqrt(out_len \div 4),
   isRGB    |-> isqrt(out_len \div 3) * isqrt(out_len \div 3) * 3 = out_len,
   isRGBA   |-> isqrt(out_len \div 4) * isqrt(out_len \div 4) * 4 = out_len]

\* a bitmap drawn from the RGBA bytes as they are
bitmapFromBytesKeepingAlpha(d, buf, sq) ==
  IF sq.isRGB THEN drawBitmapRGB888FullScreen(d, buf, sq.sizeRGB)
  ELSE IF sq.isRGBA THEN drawBitmapRGB888FullScreen(d, buf, sq.sizeRGBA)
  ELSE d

\* buf holds the decoded bytes, then what the allocation held before
bitmapFromBytes(d, buf, sq) ==
  IF sq.isRGB THEN drawBitmapRGB888FullScreen(d, buf, sq.sizeRGB)
  ELSE IF sq.isRGBA
  THEN drawBitmapRGB888FullScreen(d, dropAlpha(buf, sq.sizeRGBA * sq.sizeRGBA), sq.sizeRGBA)
  ELSE d

bitmapFromDecoded(d, dec) ==
  IF dec.res # 0 THEN d ELSE bitmapFromBytes(d, dec.out \o d.heap, inferSquare(Len(dec.out)))

bitmapFromValue(d, bmp) ==
  IF Len(bmp) <= 0 THEN d ELSE bitmapFromDecoded(d, mbedtls_base64_decode(bmp))

bitmapFromField(d, line, bmpPos) ==
  IF bmpPos < 0 THEN d ELSE bitmapFromValue(d, unquote(fieldAt(line, bmpPos + 7)))

\* the BITMAP= part of handleKeyState (BITMAP mode)
handleKeyStateBitmap(d, line) ==
  bitmapFromField(d, line, indexOf(line, <<"B","I","T","M","A","P","=">>))

\* a TEXT mode that takes the colours of a line and leaves its text
handleKeyStateDisplayColorsOnly(d, line) ==
  IF d.displayMode = DISPLAY_BITMAP
  THEN handleKeyStateBitmap(d, line)
  ELSE handleTextModeColors(d, line)

\* a display handling that takes every field in both modes
handleKeyStateDisplayAnyMode(d, line) ==
  handleKeyStateTextField(handleTextModeColors(handleKeyStateBitmap(d, line), line), line)

\* "Display handling by mode", once the LED part has run
handleKeyStateDisplay(d, line) ==
  IF d.displayMode = DISPLAY_BITMAP
  THEN handleKeyStateBitmap(d, line)
  ELSE handleKeyStateTextField(handleTextModeColors(d, line), line)

handleKeyState(d, line) == handleKeyStateDisplay(handleKeyStateLed(d, line), line)

\* ------------------------------------------------------------------------
\* Parse all Companion API messages: the globals after the call and the lines
\* written to the socket by it
\* ------------------------------------------------------------------------
\* a reply that carries only the first word of the payload
pingPayloadFirstWord(apiData) ==
  LET rest == substringFrom(apiData, indexOf(apiData, <<" ">>) + 1)
  IN  IF indexOf(rest, <<" ">>) >= 0 THEN substring(rest, 0, indexOf(rest, <<" ">>)) ELSE rest

\* apiData.substring(apiData.indexOf(' ') + 1)
pingPayload(apiData) == substringFrom(apiData, indexOf(apiData, <<" ">>) + 1)

\* brightness = v.toInt(), then the LED and the backlight follow
setBrightness(d, value) ==
  applyDisplayBrightness(
    setExternalLedColor([d EXCEPT !.brightness = value], d.lastColorR, d.lastColorG, d.lastColorB))

\* the BRIGHTNESS branch, valPos being apiData.indexOf("VALUE=")
handleBrightness(d, apiData, valPos) ==
  IF valPos >= 0 THEN setBrightness(d, toInt(trim(substringFrom(apiData, valPos + 6)))) ELSE d

\* a KEYS-CLEAR that blanks the panel and keeps the text
clearKeysScreenOnly(d) == clearScreen(d)

\* the KEYS-CLEAR branch, the LED already off
clearKeys(d) == IF d.displayMode = DISPLAY_TEXT THEN setText(d, <<>>) ELSE clearScreen(d)

parseAPI(d, apiData) ==
  IF Len(apiData) = 0 THEN [d |-> d, tx |-> <<>>]
  ELSE IF startsWith(apiData, <<"P","O","N","G">>) THEN [d |-> d, tx |-> <<>>]
  ELSE IF startsWith(apiData, <<"P","I","N","G">>)
  THEN [d |-> d, tx |-> << <<"P","O","N","G"," ">> \o pingPayload(apiData) >>]
  ELSE IF startsWith(apiData, <<"B","R","I","G","H","T","N","E","S","S">>)
  THEN [d  |-> handleBrightness(d, apiData, indexOf(apiData, <<"V","A","L","U","E","=">>)),
        tx |-> <<>>]
  ELSE IF startsWith(apiData, <<"K","E","Y","S","-","C","L","E","A","R">>)
  THEN [d |-> clearKeys(setExternalLedColor(d, 0, 0, 0)), tx |-> <<>>]
  ELSE IF startsWith(apiData, <<"K","E","Y","-","S","T","A","T","E">>)
  THEN [d |-> handleKeyState(d, apiData), tx |-> <<>>]
  ELSE [d |-> d, tx |-> <<>>]

\* ------------------------------------------------------------------------
\* Bounds of the model
\* ------------------------------------------------------------------------
\* the clock stops the exploration at this many milliseconds after power-on
MaxNow == 12500

\* lines the socket buffers between two iterations of loop()
MaxRx == 2

\* ------------------------------------------------------------------------
\* State
\* ------------------------------------------------------------------------
VARIABLES
  pc,              \* "loop": in loop(); "portal": blocked in startConfigPortal
  now,             \* millis() as read by the last iteration (power-on time at boot)
  lastPingTime,    \* unsigned long lastPingTime
  lastConnectTry,  \* unsigned long lastConnectTry
  connected,       \* client.connected()
  companionUp,     \* environment: the Companion host accepts connections
  rx,              \* environment: lines received on the socket, not yet read
  btnPress,        \* M5.BtnA: debounced state after the last M5.update()
  btnChange,       \* M5.BtnA: time of the last change of that state
  dev,             \* the display-side globals (brightness, colours, text, layout, panel)
  wire,            \* history: lines written to the socket by the last step, in order
  tick,            \* history: what the last step was and what it saw
  hist             \* history: summary of attempts, pings and key events so far

vars == <<pc, now, lastPingTime, lastConnectTry, connected, companionUp, rx,
          btnPress, btnChange, dev, wire, tick, hist>>

\* ------------------------------------------------------------------------
\* Outbound lines
\* ------------------------------------------------------------------------
keyPress(pressed) ==
  <<"K","E","Y","-","P","R","E","S","S"," ","D","E","V","I","C","E","I","D","=">>
  \o deviceID \o
  (IF pressed
   THEN <<" ","K","E","Y","=","0"," ","P","R","E","S","S","E","D","=","t","r","u","e">>
   ELSE <<" ","K","E","Y","=","0"," ","P","R","E","S","S","E","D","=","f","a","l","s","e">>)

pingLine == <<"P","I","N","G"," ","m","5","s","t","i","c","k","c">>

\* ------------------------------------------------------------------------
\* LOOP, piece by piece
\* ------------------------------------------------------------------------
LongPressMs == 5000

\* delay(200) between a successful connect and sendAddDevice
ConnectedDelayMs == 200

\* M5.BtnA.pressedFor(5000), for the state and change time after M5.update()
pressedFor(press, t, change) == press /\ U32GE(U32Sub(t, change), LongPressMs)

\* a connection manager that tries again in every iteration without a socket
connectDueEveryTick(conn, t, last) == ~conn

\* !client.connected() && (now - lastConnectTry >= connectRetryMs)
connectDue(conn, t, last) == ~conn /\ U32GE(U32Sub(t, last), connectRetryMs)

\* a connect branch that forgets the registration
onConnectedSilent(d) == [d |-> drawCenterText(d, "Connected"), tx |-> <<>>]

\* the branch taken when client.connect() succeeds
onConnected(d) == [d |-> drawCenterText(d, "Connected"), tx |-> <<sendAddDevice(d)>>]

\* a firmware that opens the config portal when the Companion cannot be reached
afterAttemptPortal(ok) == IF ok THEN "loop" ELSE "portal"

\* where loop() stands after a connect attempt: a failure only logs
afterAttempt(ok) == "loop"

\* line.trim(); if (line.length() > 0) parseAPI(line)
dispatchLine(d, line) ==
  IF Len(line) > 0 THEN parseAPI(d, line) ELSE [d |-> d, tx |-> <<>>]

\* the outcome r of one line, followed by the outcome rest of the lines after it
drained(r, line, rest) ==
  [d    |-> rest.d,
   tx   |-> r.tx \o rest.tx,
   seen |-> (IF Len(line) > 0 THEN <<line>> ELSE <<>>) \o rest.seen]

RECURSIVE drainLinesNewestFirst(_, _)
drainedNewestFirst(r, line, lines) ==
  drained(r, line, drainLinesNewestFirst(r.d, SubSeq(lines, 1, Len(lines) - 1)))

readLineNewestFirst(d, line, lines) == drainedNewestFirst(dispatchLine(d, line), line, lines)

\* a reader that dispatches the newest line first
drainLinesNewestFirst(d, lines) ==
  IF lines = <<>> THEN [d |-> d, tx |-> <<>>, seen |-> <<>>]
  ELSE readLineNewestFirst(d, trim(lines[Len(lines)]), lines)

RECURSIVE drainLines(_, _)
drainedThen(r, line, lines) == drained(r, line, drainLines(r.d, Tail(lines)))

\* String line = client.readStringUntil('\n'), trimmed, then dispatched
readLine(d, line, lines) == drainedThen(dispatchLine(d, line), line, lines)

\* while (client.available()): read a line, trim it, dispatch it when not empty
drainLines(d, lines) ==
  IF lines = <<>> THEN [d |-> d, tx |-> <<>>, seen |-> <<>>]
  ELSE readLine(d, trim(Head(lines)), lines)

\* an input mapper that reports presses only
onButtonsPressOnly(d, wasPressed, wasReleased) ==
  [d  |-> d, tx |-> IF wasPressed THEN <<keyPress(TRUE)>> ELSE <<>>]

\* an input mapper that reports every edge as a press
onButtonsAllPressed(d, wasPressed, wasReleased) ==
  [d  |-> d,
   tx |-> (IF wasPressed THEN <<keyPress(TRUE)>> ELSE <<>>)
          \o (IF wasReleased THEN <<keyPress(TRUE)>> ELSE <<>>)]

\* Short press -> KEY-PRESS true/false, with the yellow border in TEXT mode
onButtons(d, wasPressed, wasReleased) ==
  LET d1 == IF wasPressed /\ d.displayMode = DISPLAY_TEXT
            THEN refreshTextDisplay([d EXCEPT !.textPressedBorder = TRUE]) ELSE d
      d2 == IF wasReleased /\ d1.displayMode = DISPLAY_TEXT
            THEN refreshTextDisplay([d1 EXCEPT !.textPressedBorder = FALSE]) ELSE d1
  IN  [d  |-> d2,
       tx |-> (IF wasPressed THEN <<keyPress(TRUE)>> ELSE <<>>)
              \o (IF wasReleased THEN <<keyPress(FALSE)>> ELSE <<>>)]

\* a keepalive timer that fires only after more than the interval
pingDueLate(t, lastPing) == U32GE(U32Sub(t, lastPing), pingIntervalMs + 1)

\* now - lastPingTime >= pingIntervalMs
pingDue(t, lastPing) == U32GE(U32Sub(t, lastPing), pingIntervalMs)

\* the body of "if (client.connected())": traffic, buttons, periodic PING
served(dr, bt, t, lastPing) ==
  [d        |-> bt.d,
   tx       |-> dr.tx \o bt.tx \o (IF pingDue(t, lastPing) THEN <<pingLine>> ELSE <<>>),
   seen     |-> dr.seen,
   lastPing |-> IF pingDue(t, lastPing) THEN t ELSE lastPing]

serveButtons(dr, wasPressed, wasReleased, t, lastPing) ==
  served(dr, onButtons(dr.d, wasPressed, wasReleased), t, lastPing)

serveClient(d, lines, wasPressed, wasReleased, t, lastPing) ==
  serveButtons(drainLines(d, lines), wasPressed, wasReleased, t, lastPing)

\* a loop that serves the socket without asking whether it is connected
loopTrafficUngated(conn, d, lines, wasPressed, wasReleased, t, lastPing) ==
  serveClient(d, lines, wasPressed, wasReleased, t, lastPing)

\* "Handle Companion traffic": nothing at all without a connected socket
loopTraffic(conn, d, lines, wasPressed, wasReleased, t, lastPing) ==
  IF conn THEN serveClient(d, lines, wasPressed, wasReleased, t, lastPing)
  ELSE [d |-> d, tx |-> <<>>, seen |-> <<>>, lastPing |-> lastPing]

\* ------------------------------------------------------------------------
\* History: what was written on the socket, and when
\* ------------------------------------------------------------------------
isAddDevice(l) == startsWith(l, <<"A","D","D","-","D","E","V","I","C","E"," ">>)

isPing(l) == startsWith(l, <<"P","I","N","G"," ">>)

isPong(l) == startsWith(l, <<"P","O","N","G"," ">>)

isKeyPress(l) == startsWith(l, <<"K","E","Y","-","P","R","E","S","S"," ">>)

isKeyDown(l) ==
  isKeyPress(l) /\ endsWith(l, <<"P","R","E","S","S","E","D","=","t","r","u","e">>)

isKeyUp(l) ==
  isKeyPress(l) /\ endsWith(l, <<"P","R","E","S","S","E","D","=","f","a","l","s","e">>)

lastTwo(q) == IF Len(q) > 2 THEN SubSeq(q, Len(q) - 1, Len(q)) ELSE q

\* whether a PRESSED=true is left unanswered after the lines tx, given it was before
RECURSIVE owedAfter(_, _)
owedAfter(owed, tx) ==
  IF tx = <<>> THEN owed
  ELSE owedAfter(IF isKeyDown(Head(tx)) THEN TRUE
                 ELSE IF isKeyUp(Head(tx)) THEN FALSE ELSE owed, Tail(tx))

\* the last KEY-PRESS among the lines tx: "true", "false", or last when there is none
RECURSIVE lastKeyAfter(_, _)
lastKeyAfter(last, tx) ==
  IF tx = <<>> THEN last
  ELSE lastKeyAfter(IF isKeyDown(Head(tx)) THEN "true"
                    ELSE IF isKeyUp(Head(tx)) THEN "false" ELSE last, Tail(tx))

NoHistory ==
  [attempts |-> <<>>,   \* the last two connect attempts: serial number, time, outcome
   pings    |-> <<>>,   \* times of the last two PINGs written on the present connection
   owed     |-> FALSE,  \* a PRESSED=true was written and no PRESSED=false since
   first    |-> <<>>,   \* the first line written on the present connection
   key      |-> "none", \* the last KEY-PRESS written on the present connection
   adds     |-> 0]      \* ADD-DEVICE lines written on the present connection

\* the history after an iteration at time t that attempted a connect (due), with
\* outcome ok, and wrote the lines tx (all of them after the connect, if any)
recordStep(h, t, due, ok, tx) ==
  LET n     == IF h.attempts = <<>> THEN 1 ELSE h.attempts[Len(h.attempts)].n + 1
      pings == IF ok THEN <<>> ELSE h.pings
      first == IF ok THEN <<>> ELSE h.first
      adds  == IF ok THEN 0 ELSE h.adds
  IN  [attempts |-> IF due THEN lastTwo(Append(h.attempts, [n |-> n, t |-> t, ok |-> ok]))
                    ELSE h.attempts,
       pings    |-> IF SelectSeq(tx, isPing) # <<>> THEN lastTwo(Append(pings, t)) ELSE pings,
       owed     |-> owedAfter(h.owed, tx),
       first    |-> IF first = <<>> /\ tx # <<>> THEN Head(tx) ELSE first,
       key      |-> lastKeyAfter(IF ok THEN "none" ELSE h.key, tx),
       adds     |-> adds + Len(SelectSeq(tx, isAddDevice))]

\* kind: "boot", "loop" or "env"; attempt: "none", "ok" or "fail"; conn: the socket
\* was connected when the iteration served it; owedBefore: hist.owed before it
Step(kind, attempt, conn, longPress, wasPressed, wasReleased, rxBefore, seen, owedBefore) ==
  [kind |-> kind, attempt |-> attempt, conn |-> conn, longPress |-> longPress,
   wasPressed |-> wasPressed, wasReleased |-> wasReleased,
   rxBefore |-> rxBefore, seen |-> seen, owedBefore |-> owedBefore]

EnvStep == Step("env", "none", FALSE, FALSE, FALSE, FALSE, <<>>, <<>>, FALSE)

\* ------------------------------------------------------------------------
\* Environment
\* ------------------------------------------------------------------------
\* time between two readings of millis() at the top of loop()
IdleMs == {1000, 2000, 5000}

\* millis() when setup() returns: its delays add up to at least this
BootMs == {100 + 3 * 300 + 500}

\* stored display mode and text rotation
BootModes == {DISPLAY_BITMAP, DISPLAY_TEXT}

BootRotations == {1}

\* lines the Companion sends while the loop runs
RxLines ==
  { <<"P","I","N","G"," ","a">>,
    <<" ","P","I","N","G"," ","b","\r">> }

\* what the Companion has sent by the time a fresh connection is first read
Greetings == { <<>>, << <<"\r">>, <<"P","I","N","G"," ","a">> >> }

\* ------------------------------------------------------------------------
\* Init: the state when setup() has returned
\* ------------------------------------------------------------------------
Booted(mode, rot, ms, up) ==
  /\ pc = "loop"
  /\ now = ms
  /\ lastPingTime = 0
  /\ lastConnectTry = 0
  /\ connected = FALSE
  /\ companionUp = up
  /\ rx = <<>>
  /\ btnPress = FALSE
  /\ btnChange = 0
  /\ dev = BootDisplay(mode, rot)
  /\ wire = <<>>
  /\ tick = Step("boot", "none", FALSE, FALSE, FALSE, FALSE, <<>>, <<>>, FALSE)
  /\ hist = NoHistory

Init ==
  \E mode \in BootModes, rot \in BootRotations, ms \in BootMs, up \in BOOLEAN :
    Booted(mode, rot, ms, up)

\* ------------------------------------------------------------------------
\* One iteration of loop()
\* ------------------------------------------------------------------------
\* a long press that opens the config portal without a word to the Companion
LoopLongPressSilent(t, raw) ==
  /\ pc' = "portal"
  /\ wire' = <<>>
  /\ dev' = drawCenterText(dev, "CONFIG PORTAL")
  /\ tick' = Step("loop", "none", connected, TRUE, ~btnPress /\ raw, btnPress /\ ~raw,
                  <<>>, <<>>, hist.owed)
  /\ hist' = recordStep(hist, t, FALSE, FALSE, <<>>)
  /\ UNCHANGED <<lastPingTime, lastConnectTry, connected, rx>>

\* 5 s long press: release failsafe, portal message, blocking config portal
LoopLongPress(t, raw) ==
  LET tx == IF connected THEN <<keyPress(FALSE)>> ELSE <<>>
  IN  /\ pc' = "portal"
      /\ wire' = tx
      /\ dev' = drawCenterText(dev, "CONFIG PORTAL")
      /\ tick' = Step("loop", "none", connected, TRUE, ~btnPress /\ raw, btnPress /\ ~raw,
                      <<>>, <<>>, hist.owed)
      /\ hist' = recordStep(hist, t, FALSE, FALSE, tx)
      /\ UNCHANGED <<lastPingTime, lastConnectTry, connected, rx>>

\* the end of an iteration: c is the outcome of the connect branch, s that of
\* the traffic branch, pending the lines that were waiting on the socket
LoopEnd(t, wasPressed, wasReleased, due, ok, c, pending, s) ==
  /\ pc' = (IF due THEN afterAttempt(ok) ELSE "loop")
  /\ lastConnectTry' = (IF due THEN t ELSE lastConnectTry)
  /\ connected' = (connected \/ ok)
  /\ lastPingTime' = s.lastPing
  /\ dev' = s.d
  /\ rx' = (IF connected \/ ok THEN <<>> ELSE rx)
  /\ wire' = c.tx \o s.tx
  /\ tick' = Step("loop", IF ok THEN "ok" ELSE IF due THEN "fail" ELSE "none",
                  connected \/ ok, FALSE, wasPressed, wasReleased,
                  IF connected \/ ok THEN pending ELSE <<>>, s.seen, hist.owed)
  /\ hist' = recordStep(hist, t, due, ok, c.tx \o s.tx)

\* "Handle Companion traffic" and what follows it; a fresh connection has
\* lastPingTime = millis(), read after the delay(200)
LoopTraffic(t, wasPressed, wasReleased, due, ok, c, pending) ==
  LoopEnd(t, wasPressed, wasReleased, due, ok, c, pending,
          loopTraffic(connected \/ ok, c.d, pending, wasPressed, wasReleased, t,
                      IF ok THEN t + ConnectedDelayMs ELSE lastPingTime))

\* client.connect(): it succeeds when the Companion accepts connections
LoopConnect(t, wasPressed, wasReleased, hello, due, ok) ==
  LoopTraffic(t, wasPressed, wasReleased, due, ok,
              IF ok THEN onConnected(dev) ELSE [d |-> dev, tx |-> <<>>],
              IF ok THEN hello ELSE rx)

LoopAttempt(t, wasPressed, wasReleased, hello, due) ==
  LoopConnect(t, wasPressed, wasReleased, hello, due, due /\ companionUp)

\* connect / reconnect, then traffic, buttons and PING
LoopServe(t, raw, hello) ==
  LoopAttempt(t, ~btnPress /\ raw, btnPress /\ ~raw, hello,
              connectDue(connected, t, lastConnectTry))

Loop ==
  /\ pc = "loop"
  /\ \E idle \in IdleMs, raw \in BOOLEAN, hello \in Greetings :
       LET t      == now + idle
           change == IF ~raw THEN 0 ELSE IF raw # btnPress THEN t ELSE btnChange
       IN  /\ t <= MaxNow
           /\ now' = t
           /\ btnPress' = raw
           /\ btnChange' = change
           /\ UNCHANGED companionUp
           /\ IF pressedFor(raw, t, change)
              THEN LoopLongPress(t, raw)
              ELSE LoopServe(t, raw, hello)

\* ------------------------------------------------------------------------
\* Environment steps
\* ------------------------------------------------------------------------
\* the Companion sends a line
Receive ==
  /\ pc = "loop"
  /\ connected
  /\ Len(rx) < MaxRx
  /\ \E line \in RxLines : rx' = Append(rx, line)
  /\ wire' = <<>>
  /\ tick' = EnvStep
  /\ UNCHANGED <<pc, now, lastPingTime, lastConnectTry, connected, companionUp,
                 btnPress, btnChange, dev, hist>>

\* the socket drops; what was still buffered is never read
Drop ==
  /\ pc = "loop"
  /\ connected
  /\ connected' = FALSE
  /\ rx' = <<>>
  /\ wire' = <<>>
  /\ tick' = EnvStep
  /\ UNCHANGED <<pc, now, lastPingTime, lastConnectTry, companionUp,
                 btnPress, btnChange, dev, hist>>

\* the Companion host starts or stops accepting connections
CompanionToggle ==
  /\ pc = "loop"
  /\ companionUp' = ~companionUp
  /\ wire' = <<>>
  /\ tick' = EnvStep
  /\ UNCHANGED <<pc, now, lastPingTime, lastConnectTry, connected, rx,
                 btnPress, btnChange, dev, hist>>

\* ESP.restart() once the config portal returns: setup() runs again
Restart ==
  /\ pc = "portal"
  /\ \E mode \in BootModes, rot \in BootRotations, ms \in BootMs :
       /\ pc' = "loop"
       /\ now' = ms
       /\ lastPingTime' = 0
       /\ lastConnectTry' = 0
       /\ connected' = FALSE
       /\ rx' = <<>>
       /\ btnPress' = FALSE
       /\ btnChange' = 0
       /\ dev' = BootDisplay(mode, rot)
       /\ wire' = <<>>
       /\ tick' = Step("boot", "none", FALSE, FALSE, FALSE, FALSE, <<>>, <<>>, FALSE)
       /\ hist' = NoHistory
       /\ UNCHANGED companionUp

Next == Loop \/ Receive \/ Drop \/ CompanionToggle \/ Restart

Spec == Init /\ [][Next]_vars

\* loop() is called again and again for as long as the firmware runs; the
\* Companion is silent here, which leaves the connection manager as it is
LiveNext == Loop \/ Drop \/ CompanionToggle \/ Restart

\* ENABLED <<Loop>>_vars, as a predicate: loop() runs and the clock has room
LoopEnabled == pc = "loop" /\ \E idle \in IdleMs : now + idle <= MaxNow

\* weak fairness of Loop, WF_vars(Loop), written out with LoopEnabled
LoopFairness == []<>(~LoopEnabled) \/ []<><<Loop>>_vars

LiveSpec == Init /\ [][LiveNext]_vars /\ LoopFairness

\* ------------------------------------------------------------------------
\* Connection manager
\* ------------------------------------------------------------------------
\* C1: of any two consecutive connect attempts of which the first failed, the
\* second is made in an iteration whose millis() is at least connectRetryMs
\* (5000 ms) after that of the first.
RetryNotSooner ==
  Len(hist.attempts) = 2 /\ ~hist.attempts[1].ok
    => hist.attempts[2].t - hist.attempts[1].t >= connectRetryMs

\* the iteration that makes the attempt following a failed one
RetryAfterFailure ==
  /\ tick.attempt # "none"
  /\ Len(hist.attempts) = 2
  /\ ~hist.attempts[1].ok

\* C2: the iteration whose connect succeeds writes ADD-DEVICE before anything
\* else; the first line of every connection is its ADD-DEVICE, and a connection
\* carries exactly one ADD-DEVICE for as long as it lasts.
RegistersOnceAndFirst ==
  /\ tick.attempt = "ok" => wire # <<>> /\ isAddDevice(Head(wire))
  /\ hist.first = <<>> \/ isAddDevice(hist.first)
  /\ hist.adds <= 1
  /\ connected => hist.adds = 1

\* a re-established connection that has carried its ADD-DEVICE and now carries
\* other lines
SecondConnectionTalks ==
  /\ Len(hist.attempts) = 2
  /\ hist.attempts[1].ok /\ hist.attempts[2].ok
  /\ connected /\ tick.kind = "loop" /\ tick.attempt = "none"
  /\ wire # <<>>
  /\ hist.adds = 1

\* the clock leaves room for the iteration in which the next attempt falls due
RoomToRetry ==
  \E idle \in IdleMs : /\ now + idle <= MaxNow
                       /\ lastConnectTry + connectRetryMs + idle <= MaxNow

LastAttempt == hist.attempts[Len(hist.attempts)]

\* C3: a failed connect attempt leaves the firmware in loop(), disconnected, and
\* never in the config portal; with loop() running and no long press, every
\* failed attempt is followed by a further attempt, and a disconnected device
\* connects unless the Companion stops accepting connections.
FailureOnlyWaits ==
  /\ [](tick.attempt = "fail" => pc = "loop" /\ ~connected)
  /\ \A n \in 1 .. (MaxNow \div connectRetryMs) :
       (hist.attempts # <<>> /\ LastAttempt.n = n /\ ~LastAttempt.ok
          /\ pc = "loop" /\ ~connected /\ RoomToRetry)
         ~> ((hist.attempts # <<>> /\ LastAttempt.n > n) \/ pc = "portal")
  /\ (pc = "loop" /\ ~connected /\ RoomToRetry)
       ~> (connected \/ ~companionUp \/ pc = "portal")

\* a connection made by the attempt that followed a failed one
RetriedUntilConnected ==
  /\ tick.attempt = "ok"
  /\ connected
  /\ Len(hist.attempts) = 2
  /\ ~hist.attempts[1].ok /\ hist.attempts[2].ok

\* ------------------------------------------------------------------------
\* Keepalive
\* ------------------------------------------------------------------------
\* C4: every PING written is "PING m5stickc"; two consecutive PINGs of one
\* connection are written in iterations at least pingIntervalMs (2000 ms) apart;
\* and an iteration that serves a connected socket never ends with 2000 ms or
\* more elapsed since the last PING: it writes the PING itself.
KeepaliveEveryInterval ==
  /\ \A i \in 1 .. Len(wire) : isPing(wire[i]) => wire[i] = pingLine
  /\ Len(hist.pings) = 2 => hist.pings[2] - hist.pings[1] >= pingIntervalMs
  /\ tick.kind = "loop" /\ tick.conn /\ ~tick.longPress
       => /\ hist.pings # <<>>
          /\ now - hist.pings[Len(hist.pings)] < pingIntervalMs

\* the second PING of a connection, written exactly one interval after the first
SecondPingOnTime ==
  /\ tick.kind = "loop" /\ tick.conn
  /\ Len(hist.pings) = 2
  /\ hist.pings[2] = now
  /\ hist.pings[2] - hist.pings[1] = pingIntervalMs
  /\ pingLine \in {wire[i] : i \in 1 .. Len(wire)}

\* ------------------------------------------------------------------------
\* Input mapper and outbound gating
\* ------------------------------------------------------------------------
KeyUpsIn(tx) == Len(SelectSeq(tx, isKeyUp))

SilentWhenDisconnected ==
  /\ tick.kind = "loop" /\ ~tick.conn => wire = <<>>
  /\ tick.kind = "env" => wire = <<>>
  /\ ~connected => rx = <<>>

\* a press edge seen without a connected socket, the PING interval long elapsed
PressWhileDisconnected ==
  /\ tick.kind = "loop" /\ ~tick.conn /\ tick.wasPressed
  /\ pingDue(now, lastPingTime)
  /\ wire = <<>>

\* ------------------------------------------------------------------------
\* Inbound traffic
\* ------------------------------------------------------------------------
\* the lines of q that are not blank, trimmed, in the order of q
RECURSIVE trimmedLines(_)
trimmedLines(q) ==
  IF q = <<>> THEN <<>>
  ELSE (IF trim(Head(q)) = <<>> THEN <<>> ELSE <<trim(Head(q))>>) \o trimmedLines(Tail(q))

\* the reply owed to each PING among the lines q, in the order of q
RECURSIVE pongsFor(_)
pongsFor(q) ==
  IF q = <<>> THEN <<>>
  ELSE (IF startsWith(Head(q), <<"P","I","N","G"," ">>)
        THEN << <<"P","O","N","G"," ">> \o SubSeq(Head(q), 6, Len(Head(q))) >>
        ELSE <<>>) \o pongsFor(Tail(q))

\* what an iteration wrote after the ADD-DEVICE of a connect, if any
AfterRegistration == IF tick.attempt = "ok" THEN Tail(wire) ELSE wire

\* C7: an iteration that serves the socket dispatches every line that was
\* waiting, in arrival order, and leaves none behind; the PONG replies come in
\* the order of their PINGs and all of them before the KEY-PRESS and PING lines
\* of that iteration.
DispatchInArrivalOrder ==
  tick.kind = "loop" /\ tick.conn /\ ~tick.longPress
    => /\ tick.seen = trimmedLines(tick.rxBefore)
       /\ rx = <<>>
       /\ SelectSeq(AfterRegistration, isPong) = pongsFor(tick.seen)
       /\ SubSeq(AfterRegistration, 1, Len(pongsFor(tick.seen))) = pongsFor(tick.seen)
       /\ \A i \in 1 .. Len(AfterRegistration) :
            i > Len(pongsFor(tick.seen))
              => isKeyPress(AfterRegistration[i]) \/ AfterRegistration[i] = pingLine

\* two different PINGs waiting, answered in order ahead of a KEY-PRESS and the
\* keepalive PING of the same iteration
TwoLinesThenKeyAndPing ==
  /\ tick.kind = "loop" /\ tick.conn
  /\ Len(tick.seen) = 2 /\ tick.seen[1] # tick.seen[2]
  /\ Len(wire) = 4
  /\ isPong(wire[1]) /\ isPong(wire[2]) /\ isKeyPress(wire[3]) /\ wire[4] = pingLine

\* ------------------------------------------------------------------------
\* The dispatcher on its own: parseAPI called with one line after another
\* ------------------------------------------------------------------------
\* lines handed to parseAPI, as loop() hands them over: trimmed and not empty
ApiLines ==
  { <<"P","I","N","G"," ","a","b","c"," ","d","e","f">>,
    <<"P","I","N","G">>,
    <<"P","O","N","G"," ","m","5","s","t","i","c","k","c">>,
    <<"O","K"," ","P","I","N","G"," ","x">>,
    <<"A","D","D","-","D","E","V","I","C","E"," ","O","K"," ","D","E","V","I","C","E","I",
      "D","=","M","5">>,
    <<"B","R","I","G","H","T","N","E","S","S"," ","D","E","V","I","C","E","I","D","=","M",
      "5"," ","V","A","L","U","E","=","1","5","0">>,
    <<"B","R","I","G","H","T","N","E","S","S"," ","D","E","V","I","C","E","I","D","=","M",
      "5"," ","V","A","L","U","E","=","-","7">>,
    <<"B","R","I","G","H","T","N","E","S","S"," ","D","E","V","I","C","E","I","D","=","M",
      "5"," ","V","A","L","U","E","=","5","0">>,
    <<"B","R","I","G","H","T","N","E","S","S"," ","D","E","V","I","C","E","I","D","=","M",
      "5">>,
    <<"K","E","Y","S","-","C","L","E","A","R">>,
    <<"K","E","Y","-","S","T","A","T","E"," ","D","E","V","I","C","E","I","D","=","M","5",
      " ","K","E","Y","=","0"," ","T","Y","P","E","=","B","U","T","T","O","N"," ","C","O",
      "L","O","R","=","#","F","F","0","0","0","0"," ","T","E","X","T","=","\"","V","E",
      "V","T","V","A","=","=","\"">> }

\* a registered device, before any line of the Companion has been dispatched
ApiInit ==
  \E mode \in BootModes, rot \in BootRotations, ms \in BootMs :
    /\ pc = "loop"
    /\ now = ms
    /\ lastPingTime = ms
    /\ lastConnectTry = ms
    /\ connected = TRUE
    /\ companionUp = TRUE
    /\ rx = <<>>
    /\ btnPress = FALSE
    /\ btnChange = 0
    /\ dev = onConnected(BootDisplay(mode, rot)).d
    /\ wire = <<>>
    /\ tick = Step("boot", "none", TRUE, FALSE, FALSE, FALSE, <<>>, <<>>, FALSE)
    /\ hist = BootDisplay(mode, rot)

\* parseAPI(line); hist keeps the globals as they were before the call
Dispatch ==
  \E line \in ApiLines :
    LET r == parseAPI(dev, line)
    IN  /\ dev' = r.d
        /\ wire' = r.tx
        /\ hist' = dev
        /\ tick' = Step("api", "none", TRUE, FALSE, FALSE, FALSE, <<line>>, <<line>>, FALSE)
        /\ UNCHANGED <<pc, now, lastPingTime, lastConnectTry, connected, companionUp,
                       rx, btnPress, btnChange>>

ApiNext == Dispatch

ApiSpec == ApiInit /\ [][ApiNext]_vars

\* the line of the last dispatch
ApiLine == tick.seen[1]

Dispatched == tick.kind = "api"

\* C8: a line that begins with PING is answered with exactly one line, PONG and
\* the payload of the PING character for character, and leaves the display,
\* LED and brightness globals as they were.
PingAnswersPong ==
  Dispatched /\ startsWith(ApiLine, <<"P","I","N","G">>)
    => /\ Len(wire) = 1
       /\ startsWith(wire[1], <<"P","O","N","G"," ">>)
       /\ startsWith(ApiLine, <<"P","I","N","G"," ">>)
            => wire[1] = <<"P","O","N","G"," ">> \o SubSeq(ApiLine, 6, Len(ApiLine))
       /\ dev = hist

\* a PING whose payload has a space in it, answered on a device whose
\* brightness a BRIGHTNESS line has set
PingWithSpacesAnswered ==
  /\ Dispatched
  /\ ApiLine = <<"P","I","N","G"," ","a","b","c"," ","d","e","f">>
  /\ wire = << <<"P","O","N","G"," ","a","b","c"," ","d","e","f">> >>
  /\ dev.brightness = 50
  /\ dev = hist

KnownPrefixes ==
  { <<"P","O","N","G">>, <<"P","I","N","G">>, <<"B","R","I","G","H","T","N","E","S","S">>,
    <<"K","E","Y","S","-","C","L","E","A","R">>, <<"K","E","Y","-","S","T","A","T","E">> }

\* C9: a line that begins with PONG, and a line that begins with none of PONG,
\* PING, BRIGHTNESS, KEYS-CLEAR and KEY-STATE, changes none of the globals
\* (text, layout, colours, LED, brightness, panel), leaves the connection as it
\* is and writes nothing to the socket.
PongAndUnknownIgnored ==
  Dispatched /\ (\/ startsWith(ApiLine, <<"P","O","N","G">>)
                 \/ \A p \in KnownPrefixes :
                      Len(ApiLine) >= Len(p) => SubSeq(ApiLine, 1, Len(p)) # p)
    => /\ dev = hist
       /\ wire = <<>>
       /\ connected

\* an unrecognized line that has PING inside it, ignored on a device that
\* shows a text
UnknownLineIgnored ==
  /\ Dispatched
  /\ ApiLine = <<"O","K"," ","P","I","N","G"," ","x">>
  /\ dev.displayMode = DISPLAY_TEXT
  /\ dev.currentText = <<"T","E","S","T">>
  /\ dev = hist
  /\ wire = <<>>

\* the integer after VALUE= in the line of the last dispatch
ApiValue ==
  toInt(trim(substringFrom(ApiLine, indexOf(ApiLine, <<"V","A","L","U","E","=">>) + 6)))

\* C10, as stated: after a BRIGHTNESS line with VALUE=<n> the stored brightness
\* is n clamped to 0..100, and the stored brightness is within 0..100 in every
\* reachable state.
BrightnessStoredClamped ==
  /\ dev.brightness \in 0 .. 100
  /\ Dispatched /\ startsWith(ApiLine, <<"B","R","I","G","H","T","N","E","S","S">>)
       /\ indexOf(ApiLine, <<"V","A","L","U","E","=">>) >= 0
       => dev.brightness = (IF ApiValue < 0 THEN 0 ELSE IF ApiValue > 100 THEN 100 ELSE ApiValue)

\* ------------------------------------------------------------------------
\* The dispatcher on KEY-STATE and KEYS-CLEAR lines
\* ------------------------------------------------------------------------
KeyStateHead ==
  <<"K","E","Y","-","S","T","A","T","E"," ","D","E","V","I","C","E","I","D","=","M","5"," ",
    "K","E","Y","=","0"," ","T","Y","P","E","=","B","U","T","T","O","N">>

\* the field TEXT="<base64>" of a KEY-STATE line
textField(b64) == <<" ","T","E","X","T","=","\"">> \o b64 \o <<"\"">>

\* base64 of the texts the Companion sends; a line break travels as the two
\* characters backslash and n
TextsB64 ==
  { \* the empty text
    <<>>,
    \* A
    <<"Q","Q","=","=">>,
    \* AB
    <<"Q","U","I","=">>,
    \* ABC
    <<"Q","U","J","D">>,
    \* TEST
    <<"V","E","V","T","V","A","=","=">>,
    \* A, two blanks, BC
    <<"Q","S","A","g","Q","k","M","=">>,
    \* ABCDEF
    <<"Q","U","J","D","R","E","V","G">>,
    \* A\n
    <<"Q","V","x","u">>,
    \* A\nB
    <<"Q","V","x","u","Q","g","=","=">>,
    \* AB\nCD
    <<"Q","U","J","c","b","k","N","E">>,
    \* 1\n2\n3\n4\n5\n6
    <<"M","V","x","u","M","l","x","u","M","1","x","u","N","F","x","u","N","V","x","u","N","g","=",
      "=">>,
    \* HELLO YOU
    <<"S","E","V","M","T","E","8","g","W","U","9","V">>,
    \* AAAAAA BBBBBB
    <<"Q","U","F","B","Q","U","F","B","I","E","J","C","Q","k","J","C","Q","g","=","=">>,
    \* ABCDEFGHIJKL, one word wider than the screen
    <<"Q","U","J","D","R","E","V","G","R","0","h","J","S","k","t","M">>,
    \* AAAAAA BBBBBB CCCCCC DDDDDD
    <<"Q","U","F","B","Q","U","F","B","I","E","J","C","Q","k","J","C","Q","i","B","D","Q","0","N",
      "D","Q","0","M","g","R","E","R","E","R","E","R","E">> }

\* TEXT="VEVTVA==" COLOR=#00FF00
TextThenColorLine ==
  KeyStateHead \o
    <<" ","T","E","X","T","=","\"","V","E","V","T","V","A","=","=","\""," ","C","O","L","O",
      "R","=","#","0","0","F","F","0","0">>

\* COLOR=rgb(255,0,0) TEXT="QUI="
ColorThenTextLine ==
  KeyStateHead \o
    <<" ","C","O","L","O","R","=","r","g","b","(","2","5","5",",","0",",","0",")"," ","T","E",
      "X","T","=","\"","Q","U","I","=","\"">>

\* TEXTCOLOR=rgb(255,0,0), and no COLOR field
TextColorOnlyLine ==
  KeyStateHead \o
    <<" ","T","E","X","T","C","O","L","O","R","=","r","g","b","(","2","5","5",",","0",",","0",
      ")">>

\* TEXT="AAAAAA BBBBBB CCCCCC DDDDDD EEEEEE FFFFFF GGGGGG HHHHHH", not encoded: a text
\* with blanks cannot be base64 and is taken as it is
EightWordsLine ==
  KeyStateHead \o
    <<" ","T","E","X","T","=","\"","A","A","A","A","A","A"," ","B","B","B","B","B","B"," ",
      "C","C","C","C","C","C"," ","D","D","D","D","D","D"," ","E","E","E","E","E","E"," ","F",
      "F","F","F","F","F"," ","G","G","G","G","G","G"," ","H","H","H","H","H","H","\"">>

KeysClearLine == <<"K","E","Y","S","-","C","L","E","A","R">>

\* COLOR=300,0,0 and COLOR=rgb(0,-5,256): subfields outside 0..255
WideCsvLine ==
  KeyStateHead \o
    <<" ","C","O","L","O","R","=","3","0","0",",","0",",","0">>

WideRgbLine ==
  KeyStateHead \o
    <<" ","C","O","L","O","R","=","r","g","b","(","0",",","-","5",",","2","5","6",")">>

\* COLOR=#FF0000, COLOR=0,128,255 and COLOR=rgba(10,20,30,255)
HexColorLine ==
  KeyStateHead \o
    <<" ","C","O","L","O","R","=","#","F","F","0","0","0","0">>

CsvColorLine ==
  KeyStateHead \o
    <<" ","C","O","L","O","R","=","0",",","1","2","8",",","2","5","5">>

RgbaColorLine ==
  KeyStateHead \o
    <<" ","C","O","L","O","R","=","r","g","b","a","(","1","0",",","2","0",",","3","0",",","2",
      "5","5",")">>

\* KEY-STATE and KEYS-CLEAR lines handed to parseAPI: colours, a few texts
KeyLines ==
  {TextThenColorLine, ColorThenTextLine, TextColorOnlyLine, KeysClearLine,
   WideCsvLine, WideRgbLine, HexColorLine, CsvColorLine, RgbaColorLine,
   KeyStateHead \o textField(<<>>),
   KeyStateHead \o textField(<<"S","E","V","M","T","E","8","g","W","U","9","V">>)}

\* KEY-STATE lines that carry a text and nothing else, and KEYS-CLEAR
TextLines ==
  {KeyStateHead \o textField(t) : t \in TextsB64} \cup {EightWordsLine, KeysClearLine}

\* parseAPI(line); hist keeps the globals as they were before the call
Dispatching(line, r) ==
  /\ dev' = r.d
  /\ wire' = r.tx
  /\ hist' = dev
  /\ tick' = Step("api", "none", TRUE, FALSE, FALSE, FALSE, <<line>>, <<line>>, FALSE)
  /\ UNCHANGED <<pc, now, lastPingTime, lastConnectTry, connected, companionUp,
                 rx, btnPress, btnChange>>

DispatchKey == \E line \in KeyLines : Dispatching(line, parseAPI(dev, line))

KeySpec == ApiInit /\ [][DispatchKey]_vars

DispatchText == \E line \in TextLines : Dispatching(line, parseAPI(dev, line))

TextSpec == ApiInit /\ [][DispatchText]_vars

\* ------------------------------------------------------------------------
\* The dispatcher on KEY-STATE lines with a BITMAP field
\* ------------------------------------------------------------------------
\* the field BITMAP=<base64> of a KEY-STATE line
bitmapField(b64) == <<" ","B","I","T","M","A","P","=">> \o b64

\* base64 of the pixel buffers the Companion sends
BitmapsB64 ==
  { \* 3 bytes: one red pixel, RGB
    <<"/","w","A","A">>,
    \* 4 bytes: one green pixel, RGBA
    <<"A","P","8","A","C","Q","=","=">>,
    \* 12 bytes: red, green, blue, white, RGB
    <<"/","w","A","A","A","P","8","A","A","A","D","/","/","/","/","/">>,
    \* 16 bytes: red, green, blue, white, RGBA
    <<"/","w","A","A","C","Q","D","/","A","A","k","A","A","P","8","J","/","/","/","/","C","Q",
      "=","=">>,
    \* no byte: less than a group of four characters
    <<"A","A">>,
    \* 1 byte
    <<"Q","Q","=","=">>,
    \* 2 bytes
    <<"Q","U","I","=">>,
    \* 6 bytes
    <<"A","Q","I","D","B","A","U","G">>,
    \* 8 bytes
    <<"A","Q","I","D","B","A","U","G","B","w","g","=">>,
    \* 9 bytes
    <<"A","Q","I","D","B","A","U","G","B","w","g","J">>,
    \* not base64
    <<"/","w","!","A">>,
    \* padding in front
    <<"=","w","A","A">> }

\* BITMAP=/wAA TEXT="QUI=" COLOR=#00FF00 TEXTCOLOR=#FF0000: a bitmap, a text and
\* both colours on one line
AllFieldsLine ==
  KeyStateHead \o
    <<" ","B","I","T","M","A","P","=","/","w","A","A"," ","T","E","X","T","=","\"","Q","U",
      "I","=","\""," ","C","O","L","O","R","=","#","0","0","F","F","0","0"," ","T","E","X",
      "T","C","O","L","O","R","=","#","F","F","0","0","0","0">>

\* the payloads as they are, the payloads between quotes, an empty payload, a
\* line with every field, and KEYS-CLEAR
BitmapLines ==
  {KeyStateHead \o bitmapField(p) : p \in BitmapsB64}
    \cup {KeyStateHead \o bitmapField(<<"\"">> \o p \o <<"\"">>) : p \in BitmapsB64}
    \cup {KeyStateHead \o bitmapField(<<"\"", "\"">>), AllFieldsLine, KeysClearLine}

\* what a new allocation may hold
Heaps == {<<0, 0, 0>>, <<255, 0, 171>>}

DispatchBitmap ==
  \E line \in BitmapLines, junk \in Heaps :
    Dispatching(line, parseAPI([dev EXCEPT !.heap = junk], line))

BitmapSpec == ApiInit /\ [][DispatchBitmap]_vars

\* ------------------------------------------------------------------------
\* The reader on several lines waiting on the socket
\* ------------------------------------------------------------------------
\* KEY-STATE lines with a field that does not decode
ErrLines ==
  { \* BITMAP=/w!A: not base64
    KeyStateHead \o bitmapField(<<"/","w","!","A">>),
    \* BITMAP=AQIDBAUG: 6 bytes, no square
    KeyStateHead \o bitmapField(<<"A","Q","I","D","B","A","U","G">>),
    \* COLOR=red
    KeyStateHead \o
    <<" ","C","O","L","O","R","=","r","e","d">>,
    \* COLOR=#12
    KeyStateHead \o
    <<" ","C","O","L","O","R","=","#","1","2">>,
    \* TEXTCOLOR=1,2
    KeyStateHead \o
    <<" ","T","E","X","T","C","O","L","O","R","=","1",",","2">>,
    \* COLOR=rgb(5)
    KeyStateHead \o
    <<" ","C","O","L","O","R","=","r","g","b","(","5",")">> }

\* lines that decode: a PING, text with colours, a bitmap of one pixel
GoodLines ==
  { <<"P","I","N","G"," ","x">>,
    TextThenColorLine,
    ColorThenTextLine,
    KeyStateHead \o bitmapField(<<"/","w","A","A">>) }

\* what may wait on the socket when loop() comes to read it: one or two lines
Bursts ==
  {<<a>> : a \in ErrLines \cup GoodLines}
    \cup {<<a, b>> : a \in ErrLines, b \in GoodLines}

\* while (client.available()) over the lines waiting, r being its outcome
Draining(lines, r) ==
  /\ dev' = r.d
  /\ wire' = r.tx
  /\ hist' = dev
  /\ tick' = Step("api", "none", TRUE, FALSE, FALSE, FALSE, lines, r.seen, FALSE)
  /\ UNCHANGED <<pc, now, lastPingTime, lastConnectTry, connected, companionUp,
                 rx, btnPress, btnChange>>

DrainBurst == \E lines \in Bursts : Draining(lines, drainLines(dev, lines))

BurstSpec == ApiInit /\ [][DrainBurst]_vars

\* ------------------------------------------------------------------------
\* The text decoder on what a base64 encoder produces
\* ------------------------------------------------------------------------
MaxBytes == 4

\* NUL, '=', 0x80, 0xFF
ByteValues == {0, 61, 128, 255}

ByteStrings == UNION {[1 .. n -> ByteValues] : n \in 0 .. MaxBytes}

\* the characters with the codes x
ByteText(x) == [i \in 1 .. Len(x) |-> ByteChars[x[i] + 1]]

\* standard base64 of the bytes x: four characters per three bytes, the last
\* group padded with '='
RECURSIVE encodeBase64(_)
encodeGroup(x, n, v) ==
  << B64_TABLE[(v \div 262144) + 1],
     B64_TABLE[((v \div 4096) % 64) + 1],
     IF n >= 2 THEN B64_TABLE[((v \div 64) % 64) + 1] ELSE "=",
     IF n >= 3 THEN B64_TABLE[(v % 64) + 1] ELSE "=" >>
  \o encodeBase64(SubSeq(x, 4, Len(x)))

encodeBase64(x) ==
  IF x = <<>> THEN <<>>
  ELSE encodeGroup(x, IF Len(x) < 3 THEN Len(x) ELSE 3,
                   x[1] * 65536 + (IF Len(x) >= 2 THEN x[2] ELSE 0) * 256
                     + (IF Len(x) >= 3 THEN x[3] ELSE 0))

\* the encoding of a byte string waits to be decoded; tick.rxBefore keeps the
\* bytes as characters
CodecInit ==
  \E x \in ByteStrings :
    /\ pc = "loop"
    /\ now = 0
    /\ lastPingTime = 0
    /\ lastConnectTry = 0
    /\ connected = TRUE
    /\ companionUp = TRUE
    /\ rx = <<encodeBase64(x)>>
    /\ btnPress = FALSE
    /\ btnChange = 0
    /\ dev = BootDisplay(DISPLAY_TEXT, 1)
    /\ wire = <<>>
    /\ tick = Step("boot", "none", TRUE, FALSE, FALSE, FALSE, <<ByteText(x)>>, <<>>, FALSE)
    /\ hist = NoHistory

\* decodeBase64(input); wire takes what it returns
Decode ==
  /\ rx # <<>>
  /\ wire' = <<decodeBase64(Head(rx))>>
  /\ rx' = <<>>
  /\ tick' = Step("codec", "none", TRUE, FALSE, FALSE, FALSE, tick.rxBefore, <<Head(rx)>>,
                  FALSE)
  /\ UNCHANGED <<pc, now, lastPingTime, lastConnectTry, connected, companionUp,
                 btnPress, btnChange, dev, hist>>

CodecSpec == CodecInit /\ [][Decode]_vars

\* C11: after KEYS-CLEAR, in either display mode and whatever was shown before,
\* the text is empty, the LED colour is (0,0,0) with the red and green outputs
\* at 0 (the blue pin is disabled), and the panel has been painted anew by that
\* call: the empty text on the background in TEXT mode, black in BITMAP mode.
KeysClearResets ==
  Dispatched /\ ApiLine = KeysClearLine
    => /\ dev.currentText = <<>>
       /\ dev.numLines = 0 /\ dev.manualLines = <<>> /\ ~dev.useManualLines
       /\ dev.lastColorR = 0 /\ dev.lastColorG = 0 /\ dev.lastColorB = 0
       /\ dev.ledRed = 0 /\ dev.ledGreen = 0
       /\ dev.screen.lines = <<>>
       /\ dev.screen.kind = (IF dev.displayMode = DISPLAY_TEXT THEN "text" ELSE "fill")
       /\ dev.screen.bg = (IF dev.displayMode = DISPLAY_TEXT THEN dev.bgColor ELSE BLACK)
       /\ wire = <<>>

\* KEYS-CLEAR on a device that showed a text with the LED lit
ClearedAfterTextAndLed ==
  /\ Dispatched /\ ApiLine = KeysClearLine
  /\ hist.currentText # <<>> /\ hist.ledRed > 0 /\ hist.screen.lines # <<>>
  /\ dev.currentText = <<>> /\ dev.ledRed = 0 /\ dev.screen.lines = <<>>

\* the panel as refreshTextDisplay leaves it for the globals of d
PaintedText(d, font, lines) ==
  /\ d.screen.kind = "text"
  /\ d.screen.font = font
  /\ d.screen.lines = lines
  /\ d.screen.bg = d.bgColor
  /\ d.screen.fg = d.txtColor

TextColorLeavesBackground ==
  Dispatched /\ ApiLine = TextColorOnlyLine
    => /\ dev.bgColor = hist.bgColor
       /\ dev.lastColorR = hist.lastColorR
       /\ dev.lastColorG = hist.lastColorG
       /\ dev.lastColorB = hist.lastColorB
       /\ dev.ledRed = hist.ledRed
       /\ dev.ledGreen = hist.ledGreen
       /\ dev.displayMode = DISPLAY_TEXT => dev.txtColor = 31 * 2048

\* the value of the field key=<value> of a line, from start up to the next
\* blank or the end of the line
announcedFrom(line, start, end) == substring(line, start, IF end < 0 THEN Len(line) ELSE end)

announcedAt(line, key, p) ==
  IF p < 0 THEN <<>>
  ELSE announcedFrom(line, p + Len(key) + 2, indexOfFrom(line, <<" ">>, p + Len(key) + 2))

announced(line, key) == announcedAt(line, key, indexOf(line, <<" ">> \o key \o <<"=">>))

\* C14: every ADD-DEVICE written carries DEVICEID=<deviceID> and KEYS_TOTAL=1,
\* and its capability flags follow the display mode: TEXT=true with BITMAPS=0
\* in TEXT mode, TEXT=false with BITMAPS=72 in BITMAP mode; none announces
\* TEXT=true together with a bitmap size other than 0.
RegistrationFlagsFollowMode ==
  \A i \in 1 .. Len(wire) :
    isAddDevice(wire[i])
      => /\ announced(wire[i], <<"D","E","V","I","C","E","I","D">>) = deviceID
         /\ announced(wire[i], <<"K","E","Y","S","_","T","O","T","A","L">>) = <<"1">>
         /\ announced(wire[i], <<"T","E","X","T">>)
              = (IF dev.displayMode = DISPLAY_TEXT THEN <<"t","r","u","e">>
                 ELSE <<"f","a","l","s","e">>)
         /\ announced(wire[i], <<"B","I","T","M","A","P","S">>)
              = (IF dev.displayMode = DISPLAY_TEXT THEN <<"0">> ELSE <<"7","2">>)
         /\ ~(/\ announced(wire[i], <<"T","E","X","T">>) = <<"t","r","u","e">>
              /\ announced(wire[i], <<"B","I","T","M","A","P","S">>) # <<"0">>)

\* a registration made in BITMAP mode
RegisteredInBitmapMode ==
  /\ tick.attempt = "ok" /\ dev.displayMode = DISPLAY_BITMAP
  /\ isAddDevice(wire[1])
  /\ announced(wire[1], <<"B","I","T","M","A","P","S">>) = <<"7","2">>
  /\ announced(wire[1], <<"T","E","X","T">>) = <<"f","a","l","s","e">>

\* ------------------------------------------------------------------------
\* Text layout
\* ------------------------------------------------------------------------
\* the layout globals of d
Layout(d) ==
  [useManualLines |-> d.useManualLines, manualLines |-> d.manualLines,
   numLines |-> d.numLines, line1 |-> d.line1, line2 |-> d.line2, line3 |-> d.line3]

\* C15: in every state exactly one layout variant is active: with
\* useManualLines, numLines is 0 and line1..line3 are empty; without it,
\* manualLines is empty.  And the layout is that of the current text alone: it
\* equals the layout computed for that text on a device that has shown nothing
\* before, so nothing computed for an earlier text is left in it.
LayoutIsOneVariant ==
  /\ dev.useManualLines
       => dev.numLines = 0 /\ dev.line1 = <<>> /\ dev.line2 = <<>> /\ dev.line3 = <<>>
  /\ ~dev.useManualLines => dev.manualLines = <<>>
  /\ Layout(dev)
       = Layout(analyseLayout([BootDisplay(dev.displayMode, dev.screenRotation)
                                 EXCEPT !.currentText = dev.currentText]))

\* a wrapped text that follows a text with six lines separated by line breaks
ManualThenWrapped ==
  /\ Dispatched /\ dev.currentText # hist.currentText
  /\ hist.useManualLines /\ Len(hist.manualLines) = 5
  /\ ~dev.useManualLines /\ dev.numLines = 2 /\ dev.line2 # <<>>
  /\ dev.manualLines = <<>>

HasLineBreak(t) == \E i \in 1 .. Len(t) : t[i] = "\n"

\* C16, as stated: a text of at most 2 characters is laid out as one line equal
\* to the text, in the ExtraBig tier, and painted so.
ShortTextIsExtraBig ==
  Dispatched /\ dev.displayMode = DISPLAY_TEXT /\ Len(dev.currentText) <= 2
    => /\ ~dev.useManualLines /\ dev.numLines = 1 /\ dev.line1 = dev.currentText
       /\ PaintedText(dev, "ExtraBig", <<dev.currentText>>)

\* C16, amended: a text of 1 or 2 characters without a line break is laid out
\* as one line equal to the text, in the ExtraBig tier, and painted so; the
\* empty text has no line at all, and a text of at most 2 characters with a
\* line break is laid out as manual lines in the Normal tier.
ShortPlainTextIsExtraBig ==
  /\ Dispatched /\ dev.displayMode = DISPLAY_TEXT
       /\ Len(dev.currentText) \in 1 .. 2 /\ ~HasLineBreak(dev.currentText)
       => /\ ~dev.useManualLines /\ dev.numLines = 1 /\ dev.line1 = dev.currentText
          /\ PaintedText(dev, "ExtraBig", <<dev.currentText>>)
  /\ Dispatched /\ dev.displayMode = DISPLAY_TEXT /\ Len(dev.currentText) = 0
       => dev.numLines = 0 /\ dev.line1 = <<>> /\ dev.screen.lines = <<>>
  /\ Dispatched /\ dev.displayMode = DISPLAY_TEXT
       /\ Len(dev.currentText) <= 2 /\ HasLineBreak(dev.currentText)
       => /\ dev.useManualLines /\ dev.numLines = 0
          /\ PaintedText(dev, "Normal", dev.manualLines)

\* "AB" after a text that was wrapped
TwoCharactersAfterWrapped ==
  /\ Dispatched /\ dev.displayMode = DISPLAY_TEXT
  /\ hist.numLines > 1
  /\ dev.currentText = <<"A","B">>
  /\ dev.numLines = 1 /\ dev.line1 = <<"A","B">>
  /\ dev.screen.font = "ExtraBig" /\ dev.screen.lines = << <<"A","B">> >>

\* C17, as stated: a text of 4 to 6 characters is laid out as one line equal to
\* the text, in the Large tier, and painted so.
MidTextIsLarge ==
  Dispatched /\ dev.displayMode = DISPLAY_TEXT /\ Len(dev.currentText) \in 4 .. 6
    => /\ ~dev.useManualLines /\ dev.numLines = 1 /\ dev.line1 = dev.currentText
       /\ PaintedText(dev, "Large", <<dev.currentText>>)

\* C17, amended: a text of 4 to 6 characters without a line break is laid out
\* as one line equal to the text, blanks included, in the Large tier, and
\* painted so; with a line break it is laid out as manual lines in the Normal
\* tier.
MidPlainTextIsLarge ==
  /\ Dispatched /\ dev.displayMode = DISPLAY_TEXT
       /\ Len(dev.currentText) \in 4 .. 6 /\ ~HasLineBreak(dev.currentText)
       => /\ ~dev.useManualLines /\ dev.numLines = 1 /\ dev.line1 = dev.currentText
          /\ PaintedText(dev, "Large", <<dev.currentText>>)
  /\ Dispatched /\ dev.displayMode = DISPLAY_TEXT
       /\ Len(dev.currentText) \in 4 .. 6 /\ HasLineBreak(dev.currentText)
       => /\ dev.useManualLines /\ dev.numLines = 0
          /\ PaintedText(dev, "Normal", dev.manualLines)

\* five characters with two blanks in a row, kept as they are
FiveCharactersWithBlanks ==
  /\ Dispatched /\ dev.displayMode = DISPLAY_TEXT
  /\ dev.currentText = <<"A"," "," ","B","C">>
  /\ dev.numLines = 1 /\ dev.line1 = <<"A"," "," ","B","C">>
  /\ dev.screen.font = "Large" /\ dev.screen.lines = << <<"A"," "," ","B","C">> >>

\* C18: a text of more than 6 characters without a line break is wrapped into
\* at most 3 lines.
WrappedIntoAtMostThree ==
  Dispatched /\ dev.displayMode = DISPLAY_TEXT
    /\ Len(dev.currentText) > 6 /\ ~HasLineBreak(dev.currentText)
    => dev.numLines <= 3

\* the line breaks a greedy wrap of words[i..] makes, cur being the line so far
RECURSIVE Breaks(_, _, _, _)
Breaks(words, i, cur, screenW) ==
  IF i > Len(words) THEN 0
  ELSE IF textWidth(IF cur = <<>> THEN words[i] ELSE cur \o <<" ">> \o words[i]) <= screenW
  THEN Breaks(words, i + 1, IF cur = <<>> THEN words[i] ELSE cur \o <<" ">> \o words[i],
              screenW)
  ELSE 1 + Breaks(words, i + 1, words[i], screenW)

\* the lines a greedy wrap of txt needs when nothing caps it
LinesNeeded(txt, screenW) == 1 + Breaks(splitWords(txt, 0), 1, <<>>, screenW)

BreakPositions(t) == {i \in 1 .. Len(t) : t[i] = "\n"}

NthBreak(t, k) ==
  CHOOSE i \in BreakPositions(t) : Cardinality({j \in BreakPositions(t) : j <= i}) = k

\* t cut at its line breaks: one piece more than there are line breaks
Pieces(t) ==
  [k \in 1 .. Cardinality(BreakPositions(t)) + 1 |->
     SubSeq(t, IF k = 1 THEN 1 ELSE NthBreak(t, k - 1) + 1,
               IF k = Cardinality(BreakPositions(t)) + 1 THEN Len(t)
               ELSE NthBreak(t, k) - 1)]

\* C20: a text with a line break, whatever its length, is laid out as manual
\* lines: its pieces between the line breaks, in order, the first 5 of them, in
\* the Normal tier, with no automatic line, and painted so.
LineBreaksGiveManualLines ==
  Dispatched /\ dev.displayMode = DISPLAY_TEXT /\ HasLineBreak(dev.currentText)
    => /\ dev.useManualLines
       /\ dev.manualLines
            = SubSeq(Pieces(dev.currentText), 1,
                     IF Len(Pieces(dev.currentText)) > 5 THEN 5
                     ELSE Len(Pieces(dev.currentText)))
       /\ dev.numLines = 0 /\ dev.line1 = <<>> /\ dev.line2 = <<>> /\ dev.line3 = <<>>
       /\ PaintedText(dev, "Normal", dev.manualLines)
       /\ wire = <<>>

\* six pieces, five kept, after a text that was one automatic line
SixPiecesFiveKept ==
  /\ Dispatched /\ dev.displayMode = DISPLAY_TEXT
  /\ hist.numLines = 1 /\ ~hist.useManualLines
  /\ Len(Pieces(dev.currentText)) = 6
  /\ dev.useManualLines
  /\ dev.manualLines = << <<"1">>, <<"2">>, <<"3">>, <<"4">>, <<"5">> >>
  /\ dev.screen.lines = dev.manualLines

\* ------------------------------------------------------------------------
\* Bitmaps
\* ------------------------------------------------------------------------
\* there is an integer side with len = side * side * bpp
SquareOf(len, bpp) == \E side \in 0 .. len : side * side * bpp = len

SideOf(len, bpp) == CHOOSE side \in 0 .. len : side * side * bpp = len

\* pixel k of a buffer of bpp bytes per pixel, its first three bytes as RGB565
PixelOf(bytes, bpp, k) ==
  (bytes[bpp * (k - 1) + 1] \div 8) * 2048 + (bytes[bpp * (k - 1) + 2] \div 4) * 32
    + (bytes[bpp * (k - 1) + 3] \div 8)

\* the panel shows the square of bpp bytes per pixel held by bytes
Rendered(bytes, bpp) ==
  /\ dev.screen.kind = "bitmap"
  /\ dev.screen.side = SideOf(Len(bytes), bpp)
  /\ Len(bytes) > 0
       => dev.screen.pixels
            = [k \in 1 .. Len(bytes) \div bpp |-> PixelOf(bytes, bpp, k)]

\* what the dispatch of a buffer of these bytes must leave in BITMAP mode
RenderedIfSquare(bytes) ==
  IF SquareOf(Len(bytes), 3) THEN Rendered(bytes, 3)
  ELSE IF SquareOf(Len(bytes), 4) THEN Rendered(bytes, 4)
  ELSE dev.screen = hist.screen

\* C21: in BITMAP mode a payload that decodes to L bytes is drawn if and only
\* if L = side * side * 3 or L = side * side * 4 for an integer side: as RGB
\* when that matches, otherwise as RGBA with every fourth byte dropped, and for
\* every other L the screen is left as it was; 15552 bytes give side 72.
BitmapDrawnIffSquare ==
  /\ \A p \in BitmapsB64 :
       /\ Dispatched /\ dev.displayMode = DISPLAY_BITMAP
       /\ ApiLine \in {KeyStateHead \o bitmapField(p),
                       KeyStateHead \o bitmapField(<<"\"">> \o p \o <<"\"">>)}
       /\ mbedtls_base64_decode(p).res = 0
       => RenderedIfSquare(mbedtls_base64_decode(p).out)
  /\ inferSquare(15552).isRGB /\ inferSquare(15552).sizeRGB = 72
  /\ \A len \in 0 .. 64 :
       /\ inferSquare(len).isRGB <=> SquareOf(len, 3)
       /\ inferSquare(len).isRGBA <=> SquareOf(len, 4)

\* four RGBA pixels drawn over a bitmap of one pixel
RgbaOverRgb ==
  /\ Dispatched /\ dev.displayMode = DISPLAY_BITMAP
  /\ hist.screen.kind = "bitmap" /\ hist.screen.side = 1
  /\ Len(ApiLine) = Len(KeyStateHead) + 8 + 24
  /\ dev.screen.kind = "bitmap" /\ dev.screen.side = 2
  /\ dev.screen.pixels = <<31 * 2048, 63 * 32, 31, 65535>>

\* 6 bytes sent over a bitmap of four pixels, which stays
SixBytesOverBitmap ==
  /\ Dispatched /\ dev.displayMode = DISPLAY_BITMAP
  /\ hist.screen.kind = "bitmap" /\ hist.screen.side = 2
  /\ ApiLine = KeyStateHead \o bitmapField(<<"A","Q","I","D","B","A","U","G">>)
  /\ dev.screen = hist.screen

\* ------------------------------------------------------------------------
\* Decode errors
\* ------------------------------------------------------------------------
\* the screen, the text and the colours of d
Shown(d) ==
  [screen |-> d.screen, currentText |-> d.currentText,
   bgColor |-> d.bgColor, txtColor |-> d.txtColor,
   lastColorR |-> d.lastColorR, lastColorG |-> d.lastColorG, lastColorB |-> d.lastColorB,
   ledRed |-> d.ledRed, ledGreen |-> d.ledGreen]

\* C22: when the first line read in an iteration has a field that does not
\* decode (a BITMAP that is not base64 or has no square size, a colour in no
\* recognised syntax), the screen, the text and the colours end up as the lines
\* after it alone would have left them, and those lines get their replies.
DecodeErrorChangesNothing ==
  Dispatched /\ tick.rxBefore # <<>> /\ Head(tick.rxBefore) \in ErrLines
    => /\ Shown(dev) = Shown(drainLines(hist, Tail(tick.rxBefore)).d)
       /\ wire = drainLines(hist, Tail(tick.rxBefore)).tx
       /\ tick.seen = tick.rxBefore

\* ------------------------------------------------------------------------
\* Colours
\* ------------------------------------------------------------------------
InByte(c) == c.r \in 0 .. 255 /\ c.g \in 0 .. 255 /\ c.b \in 0 .. 255

\* C23: the channels the colour parser returns for a recognised COLOR or
\* TEXTCOLOR token lie in 0..255, and the LED colour stored from an rgb() or
\* rgba() token is the colour that was sent.
ColourChannelsInByte ==
  /\ Dispatched /\ parseColorToken(ApiLine, <<"C","O","L","O","R">>).ok
       => InByte(parseColorToken(ApiLine, <<"C","O","L","O","R">>))
  /\ Dispatched /\ parseColorToken(ApiLine, <<"T","E","X","T","C","O","L","O","R">>).ok
       => InByte(parseColorToken(ApiLine, <<"T","E","X","T","C","O","L","O","R">>))
  /\ Dispatched /\ ApiLine = WideRgbLine
       => dev.lastColorR = 0 /\ dev.lastColorG = 0 - 5 /\ dev.lastColorB = 256

Colour(r, g, b) == [ok |-> TRUE, r |-> r, g |-> g, b |-> b]

\* C24: with the key COLOR the colour parser returns (255,0,0) for
\* COLOR=#FF0000, (0,128,255) for COLOR=0,128,255 and (10,20,30) for
\* COLOR=rgba(10,20,30,255), alone or as a field of a KEY-STATE line, and the
\* dispatch in TEXT mode stores these as the background; for a line without the
\* key it returns "absent", and the dispatch keeps the background it had.
ColourExamples ==
  /\ parseColorToken(<<"C","O","L","O","R","=","#","F","F","0","0","0","0">>,
                     <<"C","O","L","O","R">>) = Colour(255, 0, 0)
  /\ parseColorToken(<<"C","O","L","O","R","=","0",",","1","2","8",",","2","5","5">>,
                     <<"C","O","L","O","R">>) = Colour(0, 128, 255)
  /\ parseColorToken(<<"C","O","L","O","R","=","r","g","b","a","(","1","0",",","2","0",",",
                       "3","0",",","2","5","5",")">>,
                     <<"C","O","L","O","R">>) = Colour(10, 20, 30)
  /\ ~parseColorToken(KeyStateHead, <<"C","O","L","O","R">>).ok
  /\ Dispatched /\ ApiLine = HexColorLine
       => /\ parseColorToken(ApiLine, <<"C","O","L","O","R">>) = Colour(255, 0, 0)
          /\ dev.displayMode = DISPLAY_TEXT => dev.bgColor = 31 * 2048
  /\ Dispatched /\ ApiLine = CsvColorLine
       => /\ parseColorToken(ApiLine, <<"C","O","L","O","R">>) = Colour(0, 128, 255)
          /\ dev.displayMode = DISPLAY_TEXT => dev.bgColor = 32 * 32 + 31
  /\ Dispatched /\ ApiLine = RgbaColorLine
       => /\ parseColorToken(ApiLine, <<"C","O","L","O","R">>) = Colour(10, 20, 30)
          /\ dev.displayMode = DISPLAY_TEXT => dev.bgColor = 2048 + 5 * 32 + 3
  /\ Dispatched /\ startsWith(ApiLine, KeyStateHead)
       /\ indexOf(ApiLine, <<"C","O","L","O","R">>) < 0
       => /\ ~parseColorToken(ApiLine, <<"C","O","L","O","R">>).ok
          /\ dev.bgColor = hist.bgColor

\* a text without colours sent while the background is (0,128,255)
NoColourKeepsBackground ==
  /\ Dispatched /\ dev.displayMode = DISPLAY_TEXT
  /\ startsWith(ApiLine, KeyStateHead)
  /\ indexOf(ApiLine, <<"C","O","L","O","R">>) < 0
  /\ hist.bgColor = 32 * 32 + 31
  /\ dev.currentText # hist.currentText
  /\ dev.bgColor = 32 * 32 + 31 /\ dev.screen.bg = 32 * 32 + 31

\* ------------------------------------------------------------------------
\* Base64
\* ------------------------------------------------------------------------
\* C25: decodeBase64 applied to the standard base64 encoding of a byte string,
\* padded with '=' at the end only, returns that byte string.
Base64RoundTrip ==
  tick.kind = "codec"
    => /\ wire = tick.rxBefore
       /\ Len(tick.seen[1]) = 4 * ((Len(wire[1]) + 2) \div 3)
       /\ \A i \in 1 .. Len(tick.seen[1]) :
            tick.seen[1][i] = "=" => i > Len(tick.seen[1]) - 2

\* four bytes, the bytes 0 and '=' among them: two groups, the second padded
FourBytesDecoded ==
  /\ tick.kind = "codec"
  /\ tick.seen = << <<"A","D","3","/","g","A","=","=">> >>
  /\ wire = << <<"NUL", "=", "xFF", "x80">> >>

\* ------------------------------------------------------------------------
\* Buttons
\* ------------------------------------------------------------------------
\* C26: an iteration that finds the button held for 5 s while the socket is
\* connected writes KEY-PRESS ... PRESSED=false and nothing else and stops at
\* the config portal; no step taken at the config portal writes a line.
ReleaseBeforePortal ==
  /\ [](tick.kind = "loop" /\ tick.longPress /\ tick.conn
          => pc = "portal" /\ wire = <<keyPress(FALSE)>>)
  /\ [][pc = "portal" => wire' = <<>> /\ pc' = "loop" /\ ~connected']_vars

\* a long press on a connected device that had reported the press
LongPressWhileConnected ==
  /\ tick.kind = "loop" /\ tick.longPress /\ tick.conn /\ tick.owedBefore
  /\ pc = "portal"
  /\ wire = <<keyPress(FALSE)>>

\* C27: at the end of an iteration of loop() the pressed-border flag is set
\* only if the button is held down, and it is never set in BITMAP mode.
BorderOnlyWhilePressed ==
  /\ tick.kind = "loop" /\ dev.textPressedBorder => btnPress
  /\ dev.displayMode = DISPLAY_BITMAP => ~dev.textPressedBorder

\* ------------------------------------------------------------------------
\* Keepalive after a connect
\* ------------------------------------------------------------------------
\* C28: the iteration that connects and registers writes no PING, and the first
\* PING of a connection is written no sooner than pingIntervalMs after its
\* ADD-DEVICE, which is written ConnectedDelayMs after the connect attempt.
FirstPingAfterInterval ==
  /\ tick.kind = "loop" /\ tick.attempt = "ok" => SelectSeq(wire, isPing) = <<>>
  /\ connected /\ hist.attempts # <<>> /\ Len(hist.pings) = 1
       => hist.pings[1] >= LastAttempt.t + ConnectedDelayMs + pingIntervalMs

\* the KEY-PRESS lines ev, written after a connection's last KEY-PRESS was last
\* ("none" before the first), go true, false, true, ... starting with true
RECURSIVE StartsTrueAlternates(_, _)
StartsTrueAlternates(last, ev) ==
  \/ ev = <<>>
  \/ /\ IF isKeyDown(Head(ev)) THEN last # "true" ELSE last = "true"
     /\ StartsTrueAlternates(IF isKeyDown(Head(ev)) THEN "true" ELSE "false", Tail(ev))

\* the same, except that the first may be either
RECURSIVE Alternates(_, _)
Alternates(last, ev) ==
  \/ ev = <<>>
  \/ /\ IF isKeyDown(Head(ev)) THEN last # "true" ELSE last # "false"
     /\ Alternates(IF isKeyDown(Head(ev)) THEN "true" ELSE "false", Tail(ev))

\* C29, as stated: on one connection the KEY-PRESS lines alternate PRESSED=true,
\* PRESSED=false, ..., starting with PRESSED=true: no PRESSED=false is written
\* unless a PRESSED=true of the same connection is unanswered.
KeyPressStartsTrue ==
  [][StartsTrueAlternates(IF tick'.attempt = "ok" THEN "none" ELSE hist.key,
                          SelectSeq(wire', isKeyPress))]_vars

\* C29, amended: on one connection the KEY-PRESS lines alternate between
\* PRESSED=true and PRESSED=false, and the first of them may be either.
KeyPressAlternates ==
  [][Alternates(IF tick'.attempt = "ok" THEN "none" ELSE hist.key,
                SelectSeq(wire', isKeyPress))]_vars

\* a PRESSED=false that is the first KEY-PRESS of its connection: the button,
\* pressed without a connection, is released in the iteration that connects
FalseFirstOnConnection ==
  /\ tick.kind = "loop" /\ tick.attempt = "ok" /\ tick.wasReleased
  /\ KeyUpsIn(wire) = 1
  /\ SelectSeq(wire, isKeyDown) = <<>>
  /\ hist.key = "false"

\* ------------------------------------------------------------------------
\* Wrapped text as drawn
\* ------------------------------------------------------------------------
\* the words of the lines, line after line
RECURSIVE WordsOf(_)
WordsOf(lines) ==
  IF lines = <<>> THEN <<>> ELSE splitWords(Head(lines), 0) \o WordsOf(Tail(lines))

\* C30: when the greedy wrap of a text of more than 6 characters without a line
\* break succeeds with k lines, k lines are stored and drawn, and their words,
\* read in order, are the words of the text.
WrappedWordsAllDrawn ==
  Dispatched /\ dev.displayMode = DISPLAY_TEXT
    /\ Len(dev.currentText) > 6 /\ ~HasLineBreak(dev.currentText)
    /\ wrapToLines(dev.currentText, displayWidth(dev)).fits
    => /\ dev.numLines = wrapToLines(dev.currentText, displayWidth(dev)).outLines
       /\ Len(dev.screen.lines) = dev.numLines
       /\ WordsOf(dev.screen.lines) = splitWords(dev.currentText, 0)

\* ------------------------------------------------------------------------
\* Lines of a successful wrap
\* ------------------------------------------------------------------------
\* the lines a wrap counts: linesBuf[0 .. outLines - 1] at the end of the loop
CountedLines(r) == [k \in 1 .. r.cur + 1 |-> r.lines[k]]

WrappedLines(txt, screenW) ==
  CountedLines(wrapLoop(splitWords(txt, 0), 1, [k \in 1 .. MAX_AUTO_LINES |-> <<>>], 0,
                        screenW))

\* C31: after a text that was word-wrapped with success, each of the lines the
\* wrap counted holds at least one word, and so does each stored line.
NoEmptyWrappedLine ==
  Dispatched /\ dev.displayMode = DISPLAY_TEXT
    /\ Len(dev.currentText) > 6 /\ ~HasLineBreak(dev.currentText)
    /\ wrapToLines(dev.currentText, displayWidth(dev)).fits
    => /\ \A k \in 1 .. wrapToLines(dev.currentText, displayWidth(dev)).outLines :
            splitWords(WrappedLines(dev.currentText, displayWidth(dev))[k], 0) # <<>>
       /\ \A k \in 1 .. Len(dev.screen.lines) : splitWords(dev.screen.lines[k], 0) # <<>>

\* ------------------------------------------------------------------------
\* Sampling of a bitmap frame
\* ------------------------------------------------------------------------
\* the line just dispatched carried a payload that was drawn as a frame
FrameRendered ==
  /\ Dispatched /\ dev.displayMode = DISPLAY_BITMAP
  /\ \E p \in BitmapsB64 :
       /\ ApiLine \in {KeyStateHead \o bitmapField(p),
                       KeyStateHead \o bitmapField(<<"\"">> \o p \o <<"\"">>)}
       /\ mbedtls_base64_decode(p).res = 0
       /\ \/ inferSquare(Len(mbedtls_base64_decode(p).out)).isRGB
          \/ inferSquare(Len(mbedtls_base64_decode(p).out)).isRGBA

\* every source coordinate is inside the square of this side, and so is every
\* byte read
SampledInside(side, sw, sh) ==
  /\ \A srcX \in srcCoords(side, sw) : 0 <= srcX /\ srcX < side
  /\ \A srcY \in srcCoords(side, sh) : 0 <= srcY /\ srcY < side
  /\ \A idx \in sampledIdx(side, sw, sh) : 0 <= idx /\ idx + 2 < side * side * 3

\* C32: for every frame that is rendered, with side s, the source coordinates
\* of every panel pixel are in 0 .. s - 1 and every byte read lies in the
\* s * s * 3 bytes of the frame; no frame of side 0 is rendered.
SamplesInsideFrame ==
  FrameRendered
    => /\ dev.screen.kind = "bitmap"
       /\ dev.screen.side > 0
       /\ SampledInside(dev.screen.side, displayWidth(dev), displayHeight(dev))

\* ------------------------------------------------------------------------
\* KEY-STATE by display mode
\* ------------------------------------------------------------------------
\* the text, its layout and the two colours of TEXT mode
TextState(d) ==
  [currentText |-> d.currentText, layout |-> Layout(d), font |-> d.font,
   bgColor |-> d.bgColor, txtColor |-> d.txtColor]

\* C33: a dispatched line never changes the display mode; a KEY-STATE line in
\* BITMAP mode leaves the text, the layout, the background colour and the text
\* colour as they were, and a KEY-STATE line in TEXT mode draws no bitmap.
ModeGatesKeyState ==
  Dispatched
    => /\ dev.displayMode = hist.displayMode
       /\ startsWith(ApiLine, <<"K","E","Y","-","S","T","A","T","E">>)
            /\ hist.displayMode = DISPLAY_BITMAP
            => TextState(dev) = TextState(hist)
       /\ startsWith(ApiLine, <<"K","E","Y","-","S","T","A","T","E">>)
            /\ hist.displayMode = DISPLAY_TEXT
            => /\ dev.screen.kind # "bitmap"
               /\ dev.screen.pixels = <<>>
               /\ hist.screen.kind # "bitmap"

\* BITMAP mode: the line with every field has drawn its one red pixel
BitmapModeTookBitmapOnly ==
  /\ Dispatched /\ ApiLine = AllFieldsLine
  /\ dev.displayMode = DISPLAY_BITMAP
  /\ dev.screen.kind = "bitmap" /\ dev.screen.pixels = <<31 * 2048>>
  /\ dev.currentText = <<>> /\ dev.bgColor = BLACK /\ dev.txtColor = WHITE

====
